---- MODULE Spec2Model ----
(***************************************************************************)
(* dataloader-factory: the Factory (DataLoaderFactory), the six Loader     *)
(* Definitions and the DataLoader batch executors they configure, as a     *)
(* state machine.  One step is one synchronous run of library code: a      *)
(* load(), the dispatch of the batches of a turn, the continuation of a    *)
(* batch function after its fetch settled, a clear().                      *)
(***************************************************************************)
EXTENDS Integers, Sequences, FiniteSets, TLC

\* ------------------------------------------------------------------ bounds
MaxLoads == 2
MaxItems == 2
MaxFetched == 1
MaxClears == 1
MaxMany == 1
MaxBareExecs == 1

\* ---------------------------------------------------- keys and stringify
\* A key is a JavaScript value: an object, written as the sequence of its
\* <<property, value>> pairs in insertion order, a number (Prim) or undefined.
Undef == <<>>
Prim(n) == << <<"num", n>> >>

KeyA == << <<"a", 1>>, <<"b", 2>> >>
KeyAr == << <<"b", 2>>, <<"a", 1>> >>
KeyB == << <<"a", 2>>, <<"b", 2>> >>
KeyC == << <<"a", 1>>, <<"b", 3>> >>

\* The order in which the stable stringify writes property names.
PropOrder == <<"a", "b", "num">>

\* (mutant) a stringify that keeps the insertion order of the properties
insertionOrder(k) == k

\* stringify(key): the pairs of the key in sorted property order, whatever
\* the insertion order was.
stringify(k) ==
  LET has(n) == \E i \in DOMAIN k : k[i][1] = n
      names == SelectSeq(PropOrder, has)
  IN [i \in 1..Len(names) |-> k[CHOOSE j \in DOMAIN k : k[j][1] = names[i]]]

\* A custom cacheKeyFn of the kind the tests configure (`${id}.${name}`):
\* it reads the "a" property only.
aOnly(k) ==
  LET idx == {i \in DOMAIN k : k[i][1] = "a"}
  IN IF idx = {} THEN Undef ELSE << k[CHOOSE i \in idx : TRUE] >>

applyKeyFn(fn, k) == IF fn = "aOnly" THEN aOnly(k) ELSE stringify(k)

\* JavaScript truthiness of a key value: undefined and 0 are falsy.
Truthy(k) == k # Undef /\ k # Prim(0)

\* ------------------------------------------------------------------- rows
Row(id, uid, fk, fks, nm) ==
  [id |-> id, _id |-> uid, fk |-> fk, fks |-> fks, nm |-> nm]

Row1 == Row(KeyAr, Undef, KeyA, <<KeyA, KeyAr>>, "r1")
Row2 == Row(KeyA, Undef, KeyAr, <<KeyA, KeyB>>, "r2")
Row3 == Row(KeyB, Undef, KeyB, <<>>, "r3")
Rows == {Row1, Row2, Row3}

Joined(k, v) == [key |-> k, value |-> v]
JoinedRows == {Joined(KeyA, Row1), Joined(KeyAr, Row2), Joined(KeyB, Row1)}

defaultId(item) == IF Truthy(item.id) THEN item.id ELSE item._id

\* A property accessor (extractId: 'id') or the function the definition names.
access(fn, item) ==
  CASE fn = "default" -> defaultId(item)
    [] fn = "id" -> item.id
    [] fn = "_id" -> item._id
    [] fn = "fk" -> item.fk
    [] fn = "fks" -> item.fks
    [] fn = "firstFk" ->
         LET pair(p) == item.fks[1][CHOOSE i \in DOMAIN item.fks[1] : item.fks[1][i][1] = p]
         IN <<pair("a"), pair("b")>>

\* Whether an extraction function throws on a row: "firstFk" is
\* row => ({ a: row.fks[0].a, b: row.fks[0].b }), a TypeError on a row
\* without fks.
raises(fn, item) == fn = "firstFk" /\ item.fks = <<>>

\* matchKey functions of the definitions: "fk" holds iff the row's fk is the
\* key, "fks" iff the key is among the row's fks (structural comparison).
matches(fn, key, item) ==
  CASE fn = "fk" -> stringify(item.fk) = stringify(key)
    [] fn = "fks" -> \E i \in DOMAIN item.fks : stringify(item.fks[i]) = stringify(key)

\* scoreMatch functions of the definitions: "fkScore" ranks a row 2, 1 or 0;
\* "fkSigned" ranks a row that merely lists the key below zero.
score(fn, key, item) ==
  CASE fn = "fkScore" ->
         IF stringify(item.fk) = stringify(key) THEN 2
         ELSE IF \E i \in DOMAIN item.fks : stringify(item.fks[i]) = stringify(key) THEN 1
         ELSE 0
    [] fn = "fkSigned" ->
         IF stringify(item.fk) = stringify(key) THEN 1
         ELSE IF \E i \in DOMAIN item.fks : stringify(item.fks[i]) = stringify(key) THEN 0 - 1
         ELSE 0

\* keysFromFilter functions of the definitions: the filter's own keys.
filterKeys(fn, filters) ==
  CASE fn = "keys" -> IF filters = Undef THEN <<>> ELSE <<filters>>

\* ------------------------------------------------------ loader definitions
\* A constructor's config object; "" and 0 stand for an option left out, and
\* cacheMap says whether the application supplied a Map of its own in options.
NoConfig ==
  [extractId |-> "", extractKey |-> "", extractKeys |-> "", matchKey |-> "",
   scoreMatch |-> "", childIds |-> "", parentId |-> "", keysFromFilter |-> "",
   idLoader |-> <<>>, skipCache |-> FALSE, cache |-> TRUE, cacheMap |-> FALSE,
   maxBatchSize |-> 0, cacheKeyFn |-> ""]

DefaultMaxBatchSize == 1000
MatchKeyMaxBatchSize == 50
BestMatchMaxBatchSize == 100

orElse(v, unset, dflt) == IF v = unset THEN dflt ELSE v

\* What every constructor leaves behind: the kind, whether the constructor
\* threw, the idLoaders, the normalised options and the strategies chosen.
Loader(kind, config) ==
  [kind |-> kind, thrown |-> FALSE, idLoaders |-> config.idLoader,
   extractId |-> "", groupBy |-> "", filterBy |-> "",
   useCache |-> config.cache, maxBatchSize |-> config.maxBatchSize,
   cacheKeyFn |-> config.cacheKeyFn, config |-> config]

PrimaryKeyLoader(config) ==
  [Loader("PrimaryKey", config) EXCEPT
     !.extractId = orElse(config.extractId, "", "default"),
     !.maxBatchSize = orElse(config.maxBatchSize, 0, DefaultMaxBatchSize),
     !.cacheKeyFn = orElse(config.cacheKeyFn, "", "stringify")]

\* (mutant) a *-to-many constructor that ignores skipCache
BaseManyLoaderCaching(kind, config) ==
  [Loader(kind, config) EXCEPT
     !.cacheKeyFn = orElse(config.cacheKeyFn, "", "stringify"),
     !.maxBatchSize = orElse(config.maxBatchSize, 0,
                             IF config.matchKey # "" THEN MatchKeyMaxBatchSize
                             ELSE DefaultMaxBatchSize),
     !.useCache = TRUE]

\* (mutant) a *-to-many constructor that ignores the configured maxBatchSize
BaseManyLoaderUncapped(kind, config) ==
  [Loader(kind, config) EXCEPT
     !.cacheKeyFn = orElse(config.cacheKeyFn, "", "stringify"),
     !.maxBatchSize = IF config.matchKey # "" THEN MatchKeyMaxBatchSize
                      ELSE DefaultMaxBatchSize,
     !.useCache = ~config.skipCache]

BaseManyLoader(kind, config) ==
  [Loader(kind, config) EXCEPT
     !.cacheKeyFn = orElse(config.cacheKeyFn, "", "stringify"),
     !.maxBatchSize = orElse(config.maxBatchSize, 0,
                             IF config.matchKey # "" THEN MatchKeyMaxBatchSize
                             ELSE DefaultMaxBatchSize),
     !.useCache = ~config.skipCache]

\* (mutant) a constructor that accepts a config without a strategy
OneToManyLoaderAnyConfig(config) ==
  [BaseManyLoader("OneToMany", config) EXCEPT
     !.groupBy = IF config.matchKey # "" THEN "matchKey" ELSE "extractKey"]

OneToManyLoader(config) ==
  LET base == BaseManyLoader("OneToMany", config)
  IN [base EXCEPT
        !.groupBy = IF config.matchKey # "" THEN "matchKey"
                    ELSE IF config.extractKey # "" THEN "extractKey" ELSE "",
        !.thrown = (config.matchKey = "" /\ config.extractKey = ""),
        !.filterBy = IF config.keysFromFilter # "" /\ config.extractKey # ""
                     THEN "extractKey" ELSE ""]

ManyJoinedLoader(config) ==
  [BaseManyLoader("ManyJoined", config) EXCEPT
     !.groupBy = "joined",
     !.filterBy = IF config.keysFromFilter # "" THEN "joined" ELSE ""]

ManyToManyLoader(config) ==
  LET base == BaseManyLoader("ManyToMany", config)
  IN [base EXCEPT
        !.groupBy = IF config.matchKey # "" THEN "matchKey"
                    ELSE IF config.extractKeys # "" THEN "extractKeys" ELSE "",
        !.thrown = (config.matchKey = "" /\ config.extractKeys = ""),
        !.filterBy = IF config.keysFromFilter # "" /\ config.extractKeys # ""
                     THEN "extractKeys" ELSE ""]

ParentDocumentLoader(config) ==
  [Loader("ParentDocument", config) EXCEPT
     !.extractId = orElse(config.parentId, "", "default"),
     !.maxBatchSize = orElse(config.maxBatchSize, 0, DefaultMaxBatchSize),
     !.cacheKeyFn = orElse(config.cacheKeyFn, "", "stringify")]

BestMatchLoader(config) ==
  [Loader("BestMatch", config) EXCEPT
     !.maxBatchSize = orElse(config.maxBatchSize, 0, BestMatchMaxBatchSize),
     !.cacheKeyFn = orElse(config.cacheKeyFn, "", "stringify")]

addIdLoader(def, loader) == [def EXCEPT !.idLoaders = Append(@, loader)]

IsMany(def) == def.kind \in {"OneToMany", "ManyToMany", "ManyJoined"}

\* The Loader Definitions of the application, created once at module load.
\* SmallBatch is the maxBatchSize the application configures on the
\* definitions that set one.
SmallBatch == 1

LoaderNames ==
  {"byId", "byIdNoCache", "byIdOwnMap", "byIdCustom", "byFk", "byFkMatch", "byFkSkip", "byFkSmall", "byFkFilter",
   "byFks", "byFksMatch", "joined", "best", "bestSigned", "parent",
   "byFkMatchFilter", "byFksFilter", "joinedFilter", "byIdFirstFk", "byFkStrict",
   "byFkMatchSkip", "byFksSkip", "byFksMatchSkip", "joinedSkip",
   "byFksFilterPrime", "joinedFilterPrime", "byIdMutual", "byFkMutual", "byFksChain"}

Def(name) ==
  CASE name = "byId" ->
         PrimaryKeyLoader(NoConfig)
    [] name = "byIdNoCache" ->
         PrimaryKeyLoader([NoConfig EXCEPT !.extractId = "id", !.cache = FALSE])
    [] name = "byIdOwnMap" ->
         PrimaryKeyLoader([NoConfig EXCEPT !.cacheMap = TRUE])
    [] name = "byIdCustom" ->
         PrimaryKeyLoader([NoConfig EXCEPT !.cacheKeyFn = "aOnly"])
    [] name = "byFk" ->
         OneToManyLoader([NoConfig EXCEPT !.extractKey = "fk", !.idLoader = <<"byId">>])
    [] name = "byFkMatch" ->
         OneToManyLoader([NoConfig EXCEPT !.matchKey = "fk"])
    [] name = "byFkSkip" ->
         OneToManyLoader([NoConfig EXCEPT !.extractKey = "fk", !.skipCache = TRUE])
    [] name = "byFkSmall" ->
         OneToManyLoader([NoConfig EXCEPT !.extractKey = "fk", !.skipCache = TRUE,
                                          !.maxBatchSize = SmallBatch])
    [] name = "byFkFilter" ->
         OneToManyLoader([NoConfig EXCEPT !.extractKey = "fk", !.keysFromFilter = "keys",
                                          !.idLoader = <<"byId">>])
    [] name = "byFks" ->
         ManyToManyLoader([NoConfig EXCEPT !.extractKeys = "fks", !.idLoader = <<"byId">>])
    [] name = "byFksMatch" ->
         ManyToManyLoader([NoConfig EXCEPT !.matchKey = "fks"])
    [] name = "joined" ->
         ManyJoinedLoader([NoConfig EXCEPT !.idLoader = <<"byId", "byIdNoCache">>])
    [] name = "best" ->
         BestMatchLoader([NoConfig EXCEPT !.scoreMatch = "fkScore"])
    [] name = "bestSigned" ->
         BestMatchLoader([NoConfig EXCEPT !.scoreMatch = "fkSigned"])
    [] name = "parent" ->
         ParentDocumentLoader([NoConfig EXCEPT !.childIds = "fks", !.idLoader = <<"byId">>])
    [] name = "byFkMatchFilter" ->
         OneToManyLoader([NoConfig EXCEPT !.matchKey = "fk", !.keysFromFilter = "keys"])
    [] name = "byFksFilter" ->
         ManyToManyLoader([NoConfig EXCEPT !.extractKeys = "fks", !.keysFromFilter = "keys"])
    [] name = "joinedFilter" ->
         ManyJoinedLoader([NoConfig EXCEPT !.keysFromFilter = "keys"])
    [] name = "byFkMatchSkip" ->
         OneToManyLoader([NoConfig EXCEPT !.matchKey = "fk", !.skipCache = TRUE])
    [] name = "byFksSkip" ->
         ManyToManyLoader([NoConfig EXCEPT !.extractKeys = "fks", !.skipCache = TRUE])
    [] name = "byFksMatchSkip" ->
         ManyToManyLoader([NoConfig EXCEPT !.matchKey = "fks", !.skipCache = TRUE])
    [] name = "joinedSkip" ->
         ManyJoinedLoader([NoConfig EXCEPT !.skipCache = TRUE])
    [] name = "byFksFilterPrime" ->
         ManyToManyLoader([NoConfig EXCEPT !.extractKeys = "fks", !.keysFromFilter = "keys",
                                           !.idLoader = <<"byId">>])
    [] name = "joinedFilterPrime" ->
         ManyJoinedLoader([NoConfig EXCEPT !.keysFromFilter = "keys",
                                           !.idLoader = <<"byId", "byIdNoCache">>])
    [] name = "byIdFirstFk" ->
         PrimaryKeyLoader([NoConfig EXCEPT !.extractId = "firstFk"])
    [] name = "byFkStrict" ->
         OneToManyLoader([NoConfig EXCEPT !.extractKey = "fk", !.idLoader = <<"byIdFirstFk">>])
    [] name = "byIdMutual" ->
         addIdLoader(PrimaryKeyLoader([NoConfig EXCEPT !.extractId = "id"]), "byFkMutual")
    [] name = "byFkMutual" ->
         PrimaryKeyLoader([NoConfig EXCEPT !.extractId = "fk", !.idLoader = <<"byIdMutual">>])
    [] name = "byFksChain" ->
         ManyToManyLoader([NoConfig EXCEPT !.extractKeys = "fks", !.idLoader = <<"byIdMutual">>])

cacheKeyFn(def, k) == applyKeyFn(def.cacheKeyFn, k)

\* ------------------------------------------------------- batch functions
\* What a load resolves to: undefined, a row, or an array of rows.
UndefVal == [t |-> "undefined"]
RowVal(r) == [t |-> "row", v |-> r]
ArrVal(rs) == [t |-> "array", v |-> rs]

\* A JavaScript Map or Record with string keys, as a function; set replaces.
MapSet(m, k, v) == [x \in (DOMAIN m) \cup {k} |-> IF x = k THEN v ELSE m[x]]
MapGet(m, k, dflt) == IF k \in DOMAIN m THEN m[k] ELSE dflt

\* An insertion-ordered Map, as the sequence of its <<key, value>> entries: set
\* replaces the value of an existing entry in place and appends a new one.
OrderedSet(m, k, v) ==
  IF \E i \in DOMAIN m : m[i][1] = k
  THEN [i \in DOMAIN m |-> IF m[i][1] = k THEN <<k, v>> ELSE m[i]]
  ELSE Append(m, <<k, v>>)
OrderedValues(m) == [i \in DOMAIN m |-> m[i][2]]

\* PrimaryKeyLoader.init: the Map from stringified extracted id to item.
RECURSIVE keyedById(_, _, _)
keyedById(def, items, keyed) ==
  IF items = <<>> THEN keyed
  ELSE keyedById(def, Tail(items),
                 MapSet(keyed, cacheKeyFn(def, access(def.extractId, Head(items))),
                        Head(items)))

\* (mutant) a batch function that hands the rows back by position
PrimaryKeyResultsByPosition(def, ids, items) ==
  [i \in 1..Len(ids) |-> IF i <= Len(items) THEN RowVal(items[i]) ELSE UndefVal]

\* PrimaryKeyLoader.init, after the fetch: one result per requested id.
PrimaryKeyResults(def, ids, items) ==
  LET keyed == keyedById(def, items, <<>>)
  IN [i \in 1..Len(ids) |->
        LET id == cacheKeyFn(def, ids[i])
        IN IF id \in DOMAIN keyed THEN RowVal(keyed[id]) ELSE UndefVal]

\* (mutant) a parent that answers for the first of its child ids only
setFirst(keyed, keys, item) ==
  IF keys = <<>> THEN keyed ELSE MapSet(keyed, Head(keys), item)

\* ParentDocumentLoader.init: every child id of every item maps to the item.
RECURSIVE setAll(_, _, _)
setAll(keyed, keys, item) ==
  IF keys = <<>> THEN keyed
  ELSE setAll(MapSet(keyed, Head(keys), item), Tail(keys), item)

RECURSIVE keyedByChild(_, _, _)
keyedByChild(def, items, keyed) ==
  IF items = <<>> THEN keyed
  ELSE LET cids == access(def.config.childIds, Head(items))
           keys == [i \in 1..Len(cids) |-> cacheKeyFn(def, cids[i])]
       IN keyedByChild(def, Tail(items), setAll(keyed, keys, Head(items)))

ParentDocumentResults(def, ids, items) ==
  LET keyed == keyedByChild(def, items, <<>>)
  IN [i \in 1..Len(ids) |->
        LET id == cacheKeyFn(def, ids[i])
        IN IF id \in DOMAIN keyed THEN RowVal(keyed[id]) ELSE UndefVal]

\* BestMatchLoader.init: the running best {score, item} of one key over the
\* items in fetch order; NoBest while the key has no entry.
NoBest == [score |-> 0, has |-> FALSE]
\* (mutant) a scoring loop in which a row of equal score replaces the best
RECURSIVE bestForLatest(_, _, _, _)
bestForLatest(def, key, items, best) ==
  IF items = <<>> THEN best
  ELSE LET sc == score(def.config.scoreMatch, key, Head(items))
           next == IF sc = 0 THEN best
                   ELSE IF ~best.has \/ best.score <= sc
                        THEN [score |-> sc, has |-> TRUE, item |-> Head(items)]
                        ELSE best
       IN bestForLatest(def, key, Tail(items), next)

RECURSIVE bestFor(_, _, _, _)
bestFor(def, key, items, best) ==
  IF items = <<>> THEN best
  ELSE LET sc == score(def.config.scoreMatch, key, Head(items))
           next == IF sc = 0 THEN best
                   ELSE IF ~best.has \/ best.score < sc
                        THEN [score |-> sc, has |-> TRUE, item |-> Head(items)]
                        ELSE best
       IN bestFor(def, key, Tail(items), next)

BestMatchResults(def, keys, items) ==
  [i \in 1..Len(keys) |->
     LET best == bestFor(def, keys[i], items, NoBest)
     IN IF best.has THEN RowVal(best.item) ELSE UndefVal]

\* pushRecord
pushRecord(record, key, item) ==
  MapSet(record, key, Append(MapGet(record, key, <<>>), item))

\* BaseManyLoader.getDataLoader: the deduplicated keys of a batch.
RECURSIVE dedupe(_, _, _)
dedupe(def, keys, dedupekeys) ==
  IF keys = <<>> THEN dedupekeys
  ELSE dedupe(def, Tail(keys), OrderedSet(dedupekeys, cacheKeyFn(def, Head(keys)), Head(keys)))

\* (mutant) a filterItems that keeps every fetched row
filterNothing(def, items, filters) == items

\* (mutant) a filterItems without the shortcut for an empty key list
filterItemsStrict(def, items, filters) ==
  IF def.filterBy = "" THEN items
  ELSE LET ks == filterKeys(def.config.keysFromFilter, filters)
           keys == {cacheKeyFn(def, ks[i]) : i \in DOMAIN ks}
           keep(itm) ==
             CASE def.filterBy = "extractKey" ->
                    cacheKeyFn(def, access(def.config.extractKey, itm)) \in keys
               [] def.filterBy = "extractKeys" ->
                    LET eks == access(def.config.extractKeys, itm)
                    IN \E i \in DOMAIN eks : cacheKeyFn(def, eks[i]) \in keys
               [] def.filterBy = "joined" -> cacheKeyFn(def, itm.key) \in keys
       IN SelectSeq(items, keep)

\* filterItems of the three *-to-many kinds.
filterItems(def, items, filters) ==
  IF def.filterBy = "" THEN items
  ELSE LET ks == filterKeys(def.config.keysFromFilter, filters)
           keys == {cacheKeyFn(def, ks[i]) : i \in DOMAIN ks}
           keep(itm) ==
             CASE def.filterBy = "extractKey" ->
                    cacheKeyFn(def, access(def.config.extractKey, itm)) \in keys
               [] def.filterBy = "extractKeys" ->
                    LET eks == access(def.config.extractKeys, itm)
                    IN \E i \in DOMAIN eks : cacheKeyFn(def, eks[i]) \in keys
               [] def.filterBy = "joined" -> cacheKeyFn(def, itm.key) \in keys
       IN IF keys = {} THEN items ELSE SelectSeq(items, keep)

\* groupItems of the three *-to-many kinds: pushKeys is the sequence of
\* string keys one item is pushed under, in order.
RECURSIVE pushAll(_, _, _)
pushAll(record, keys, item) ==
  IF keys = <<>> THEN record
  ELSE pushAll(pushRecord(record, Head(keys), item), Tail(keys), item)

pushKeys(def, item, dedupekeys) ==
  CASE def.groupBy = "matchKey" ->
         LET ks == OrderedValues(dedupekeys)
             hit(k) == matches(def.config.matchKey, k, item)
             sel == SelectSeq(ks, hit)
         IN [i \in 1..Len(sel) |-> cacheKeyFn(def, sel[i])]
    [] def.groupBy = "extractKey" ->
         <<cacheKeyFn(def, access(def.config.extractKey, item))>>
    [] def.groupBy = "extractKeys" ->
         LET eks == access(def.config.extractKeys, item)
         IN [i \in 1..Len(eks) |-> cacheKeyFn(def, eks[i])]
    [] def.groupBy = "joined" -> <<cacheKeyFn(def, item.key)>>

RECURSIVE groupItems(_, _, _, _)
groupItems(def, items, dedupekeys, ret) ==
  IF items = <<>> THEN ret
  ELSE groupItems(def, Tail(items), dedupekeys,
                  pushAll(ret, pushKeys(def, Head(items), dedupekeys),
                          IF def.groupBy = "joined" THEN Head(items).value ELSE Head(items)))

\* (mutant) the result mapping without its "|| []"
ManyResultsNoDefault(def, keys, items, filters) ==
  LET dedupekeys == dedupe(def, keys, <<>>)
      grouped == groupItems(def, filterItems(def, items, filters), dedupekeys, <<>>)
  IN [i \in 1..Len(keys) |->
        IF cacheKeyFn(def, keys[i]) \in DOMAIN grouped
        THEN ArrVal(grouped[cacheKeyFn(def, keys[i])]) ELSE UndefVal]

\* BaseManyLoader.getDataLoader, after the fetch: one bucket per requested key.
ManyResults(def, keys, items, filters) ==
  LET dedupekeys == dedupe(def, keys, <<>>)
      grouped == groupItems(def, filterItems(def, items, filters), dedupekeys, <<>>)
  IN [i \in 1..Len(keys) |-> ArrVal(MapGet(grouped, cacheKeyFn(def, keys[i]), <<>>))]

\* (mutant) the keys of the batch handed to fetch as they were requested
FetchKeysAsRequested(def, keys) == keys

\* The keys a batch function hands to fetch.
FetchKeys(def, keys) ==
  IF IsMany(def) THEN OrderedValues(dedupe(def, keys, <<>>)) ELSE keys

\* The values a batch function returns for the keys of its batch.
BatchResults(def, keys, items, filters) ==
  CASE def.kind = "PrimaryKey" -> PrimaryKeyResults(def, keys, items)
    [] def.kind = "ParentDocument" -> ParentDocumentResults(def, keys, items)
    [] def.kind = "BestMatch" -> BestMatchResults(def, keys, items)
    [] OTHER -> ManyResults(def, keys, items, filters)

\* (mutant) a batch function that primes with every fetched row
PrimeItemsUnfiltered(def, items, filters) ==
  IF def.kind = "ManyJoined" THEN [i \in 1..Len(items) |-> items[i].value] ELSE items

\* The rows a batch primes its idLoaders with, in order.
PrimeItems(def, items, filters) ==
  IF ~IsMany(def) THEN items
  ELSE LET kept == filterItems(def, items, filters)
       IN IF def.kind = "ManyJoined" THEN [i \in 1..Len(kept) |-> kept[i].value] ELSE kept

\* ------------------------------------------------------------------ state
VARIABLES
  scn,      \* the scenario of the run: the definition the application loads
            \* through (its idLoaders with it) and the Factories in use
  loaders,  \* DataLoaderFactory.loaders of every Factory
  context,  \* DataLoaderFactory.context of every Factory
  execs,    \* the DataLoader instances ever built (FilteredStorageObject for
            \* the *-to-many kinds), each with its cache map
  batches,  \* the batches of the DataLoaders, each with its fetch call
  prom,     \* the promises handed out by load() and prime()
  calls,    \* the load() calls made so far
  many,     \* the loadMany() calls made so far
  last,     \* the latest fetch that resolved: its batch and what it returned
  clears,   \* clear() calls so far
  maps,     \* the Map objects the application supplied as options.cacheMap
  ret       \* what the latest constructor, register or getCache call gave
            \* its caller

vars == <<scn, loaders, context, execs, batches, prom, calls, many, last, clears, maps, ret>>

\* The part of the state the library code reads and writes.
Lib ==
  [loaders |-> loaders, execs |-> execs, batches |-> batches, prom |-> prom,
   clears |-> clears, maps |-> maps]

\* The context values an application gives to the constructor of a Factory:
\* an object of its own, or nothing; and the empty object.
Session(f) == [t |-> "object", session |-> f]
EmptyObject == [t |-> "object"]

\* (mutant) a constructor that keeps the context as it was given
DataLoaderFactoryAsGiven(given) == given

\* new DataLoaderFactory(context): the value of this.context.
DataLoaderFactory(given) == IF given = UndefVal THEN EmptyObject ELSE given

\* factory.context, as the batch function reads it when it calls fetch.
Context(f) == context[f]

\* The filter values and the keys the application passes in this run.
Filters == scn.filters
LoadKeys == scn.keys

NoCall == [made |-> FALSE]

\* ------------------------------------------------------ DataLoaderFactory
\* new DataLoader(batchFn, options) as built by init / getDataLoader.
NewExec(f, name, filters, epoch) ==
  [def |-> name, fac |-> f, filters |-> filters, cache |-> <<>>, epoch |-> epoch]

\* (mutant) every filter value lands on one cache slot
oneFilterstring(filters) == Undef

\* (mutant) the filter value itself as the cache slot, property order included
rawFilterstring(filters) == filters

\* const filterstring = stringify(filters)
filterstring(filters) == stringify(filters)

\* (mutant) a get() that keeps the executors of every Factory in one place
factoryGetShared(st, f, name, filters) ==
  LET def == Def(name)
      new == Len(st.execs) + 1
      has == name \in DOMAIN st.loaders[1]
  IN IF ~IsMany(def)
     THEN IF has THEN [st |-> st, ex |-> st.loaders[1][name]]
          ELSE [st |-> [st EXCEPT !.loaders[1] = MapSet(@, name, new),
                                  !.execs = Append(@, NewExec(1, name, Undef, st.clears[1]))],
                ex |-> new]
     ELSE LET cached == IF has THEN st.loaders[1][name] ELSE <<>>
              slot == filterstring(filters)
          IN IF slot \in DOMAIN cached
             THEN [st |-> st, ex |-> cached[slot]]
             ELSE [st |-> [st EXCEPT
                             !.loaders[1] = MapSet(@, name, MapSet(cached, slot, new)),
                             !.execs = Append(@, NewExec(1, name, filters, st.clears[1]))],
                   ex |-> new]

\* DataLoaderFactory.get: the library state after the call and the DataLoader
\* returned.
factoryGet(st, f, name, filters) ==
  LET def == Def(name)
      new == Len(st.execs) + 1
      has == name \in DOMAIN st.loaders[f]
  IN IF ~IsMany(def)
     THEN IF has THEN [st |-> st, ex |-> st.loaders[f][name]]
          ELSE [st |-> [st EXCEPT !.loaders[f] = MapSet(@, name, new),
                                  !.execs = Append(@, NewExec(f, name, Undef, st.clears[f]))],
                ex |-> new]
     ELSE LET cached == IF has THEN st.loaders[f][name] ELSE <<>>
              slot == filterstring(filters)
          IN IF slot \in DOMAIN cached
             THEN [st |-> st, ex |-> cached[slot]]
             ELSE [st |-> [st EXCEPT
                             !.loaders[f] = MapSet(@, name, MapSet(cached, slot, new)),
                             !.execs = Append(@, NewExec(f, name, filters, st.clears[f]))],
                   ex |-> new]

\* ------------------------------------------------------------- DataLoader
BatchesOf(st, e) == {b \in DOMAIN st.batches : st.batches[b].ex = e}

\* The definitions whose executors all use the one Map the application
\* supplied (this.config.options.cacheMap ?? new Map()).
OwnMap(def) == ~IsMany(def) /\ def.config.cacheMap

\* The cache map of executor e, and the state after replacing its content.
cacheMap(st, e) ==
  IF OwnMap(Def(st.execs[e].def)) THEN st.maps[st.execs[e].def] ELSE st.execs[e].cache

setCacheMap(st, e, m) ==
  IF OwnMap(Def(st.execs[e].def)) THEN [st EXCEPT !.maps[st.execs[e].def] = m]
  ELSE [st EXCEPT !.execs[e].cache = m]

\* (mutant) a DataLoader that never finds a key in its cache
cacheMiss(st, e, cacheKey) == FALSE

\* DataLoader.load: whether the cache map holds the key (no map without cache).
cacheHit(st, e, cacheKey) ==
  Def(st.execs[e].def).useCache /\ cacheKey \in DOMAIN cacheMap(st, e)

\* DataLoader.load: the state after the call, the promise that decides the
\* result and, for a cache hit, the batch whose dispatch releases it (else 0).
dlLoad(st, e, key) ==
  LET def == Def(st.execs[e].def)
      mine == BatchesOf(st, e)
      existing == IF mine = {} THEN 0 ELSE CHOOSE b \in mine : \A c \in mine : c <= b
      reuse == /\ existing # 0
               /\ st.batches[existing].st = "open"
               /\ Len(st.batches[existing].keys) < def.maxBatchSize
      b == IF reuse THEN existing ELSE Len(st.batches) + 1
      st1 == IF reuse THEN st
             ELSE [st EXCEPT !.batches =
                     Append(@, [ex |-> e, keys |-> <<>>, pids |-> <<>>, st |-> "open",
                                call |-> NoCall])]
      cacheKey == cacheKeyFn(def, key)
      pid == Len(st.prom) + 1
  IN IF cacheHit(st, e, cacheKey)
     THEN [st |-> st1, pid |-> cacheMap(st, e)[cacheKey], hit |-> b]
     ELSE LET st2 == [st1 EXCEPT !.batches[b].keys = Append(@, key),
                                 !.batches[b].pids = Append(@, pid),
                                 !.prom = Append(@, [st |-> "pending"])]
          IN [st |-> IF def.useCache
                     THEN setCacheMap(st2, e, MapSet(cacheMap(st2, e), cacheKey, pid))
                     ELSE st2,
              pid |-> pid, hit |-> 0]

\* (mutant) a prime that stores nothing
dlPrimeNothing(st, e, key, value) == st

\* (mutant) a prime that replaces the entry it finds
dlPrimeReplacing(st, e, key, value) ==
  IF Def(st.execs[e].def).useCache
  THEN setCacheMap([st EXCEPT !.prom = Append(@, [st |-> "resolved", val |-> RowVal(value)])],
                   e, MapSet(cacheMap(st, e), cacheKeyFn(Def(st.execs[e].def), key),
                             Len(st.prom) + 1))
  ELSE st

\* DataLoader.prime: no effect without a cache or on an existing entry.
dlPrime(st, e, key, value) ==
  LET def == Def(st.execs[e].def)
      cacheKey == cacheKeyFn(def, key)
  IN IF def.useCache /\ cacheKey \notin DOMAIN cacheMap(st, e)
     THEN setCacheMap([st EXCEPT !.prom = Append(@, [st |-> "resolved", val |-> RowVal(value)])],
                      e, MapSet(cacheMap(st, e), cacheKey, Len(st.prom) + 1))
     ELSE st

\* (mutant) a priming that goes on to the first idLoader of the primed loader
RECURSIVE primeLoaderTransitive(_, _, _, _)
primeLoaderTransitive(st, f, loader, items) ==
  IF items = <<>> THEN st
  ELSE LET got == factoryGet(st, f, loader, Undef)
           item == Head(items)
           st1 == dlPrime(got.st, got.ex, access(Def(loader).extractId, item), item)
           next == Def(loader).idLoaders
           st2 == IF next = <<>> THEN st1
                  ELSE LET onward == factoryGet(st1, f, next[1], Undef)
                       IN dlPrime(onward.st, onward.ex,
                                  access(Def(next[1]).extractId, item), item)
       IN primeLoaderTransitive(st2, f, loader, Tail(items))

\* factory.get(loader).prime(loader.extractId(item), item) for every item,
\* up to the item on which extractId throws: get() has run by then.
RECURSIVE primeLoader(_, _, _, _)
primeLoader(st, f, loader, items) ==
  IF items = <<>> THEN st
  ELSE LET got == factoryGet(st, f, loader, Undef)
           item == Head(items)
       IN IF raises(Def(loader).extractId, item) THEN got.st
          ELSE primeLoader(dlPrime(got.st, got.ex, access(Def(loader).extractId, item), item),
                           f, loader, Tail(items))

\* Priming the loader with the items throws.
primeThrows(loader, items) ==
  \E i \in DOMAIN items : raises(Def(loader).extractId, items[i])

\* for (const loader of this.idLoaders) ..., up to the loader whose priming
\* throws.
RECURSIVE primeAll(_, _, _, _)
primeAll(st, f, idLoaders, items) ==
  IF idLoaders = <<>> THEN st
  ELSE IF primeThrows(Head(idLoaders), items)
  THEN primeLoader(st, f, Head(idLoaders), items)
  ELSE primeAll(primeLoader(st, f, Head(idLoaders), items), f, Tail(idLoaders), items)

\* The batch function throws after its fetch resolved: while it primes an
\* idLoader, or while a PrimaryKeyLoader extracts the id of a row.
batchThrows(def, items, filters) ==
  \/ \E l \in DOMAIN def.idLoaders :
       primeThrows(def.idLoaders[l], PrimeItems(def, items, filters))
  \/ def.kind = "PrimaryKey" /\ \E i \in DOMAIN items : raises(def.extractId, items[i])

\* (mutant) a dispatch that settles the first load of the batch only
resolveFirst(p, pids, values) ==
  IF pids = <<>> THEN p
  ELSE [p EXCEPT ![Head(pids)] = [st |-> "resolved", val |-> Head(values)]]

\* DataLoader settling the promises of a batch with the values returned.
RECURSIVE resolveAll(_, _, _)
resolveAll(p, pids, values) ==
  IF pids = <<>> THEN p
  ELSE resolveAll([p EXCEPT ![Head(pids)] = [st |-> "resolved", val |-> Head(values)]],
                  Tail(pids), Tail(values))

\* (mutant) a failed dispatch that rejects the first load of the batch only
rejectFirst(p, pids) ==
  IF pids = <<>> THEN p ELSE [p EXCEPT ![Head(pids)] = [st |-> "rejected"]]

\* DataLoader failedDispatch: clear every key of the batch and reject.
RECURSIVE rejectAll(_, _)
rejectAll(p, pids) ==
  IF pids = <<>> THEN p
  ELSE rejectAll([p EXCEPT ![Head(pids)] = [st |-> "rejected"]], Tail(pids))

\* (mutant) a failed dispatch that leaves the cache as it is
WithoutNothing(m, ks) == m

\* (mutant) a failed dispatch that empties the cache
WithoutAll(m, ks) == <<>>

\* loader.clear(key) for every key of a failed batch
Without(m, ks) == [x \in (DOMAIN m) \ ks |-> m[x]]

\* ---------------------------------------------------------------- actions
SeqsUpTo(S, n) == UNION {[1..k -> S] : k \in 0..n}

\* What a fetch function may return: any rows, in any order, with duplicates
\* and omissions ({key, value} pairs for a ManyJoinedLoader).
FetchResults(def, n) ==
  SeqsUpTo(IF def.kind = "ManyJoined" THEN JoinedRows ELSE Rows, n)

\* The definitions the application loads through in this run.
Loadable == {scn.main} \cup {Def(scn.main).idLoaders[i] : i \in DOMAIN Def(scn.main).idLoaders}

Scenario(main, filters, keys) ==
  [main |-> main, facs |-> {1}, given |-> [f \in {1} |-> Session(f)],
   filters |-> filters, keys |-> keys]

\* The same run with two Factories, each constructed with its own context.
TwoFactories(S) == [S EXCEPT !.facs = {1, 2}, !.given = [f \in {1, 2} |-> Session(f)]]

\* The same run with a Factory that was constructed without a context.
WithoutContext(S) == [S EXCEPT !.given = [f \in S.facs |-> UndefVal]]

\* One run per definition.  The runs that load through a definition with
\* idLoaders also load through the primed byId; the runs that pass several
\* filters use definitions without idLoaders.
Scenarios ==
  {Scenario("byId", {Undef}, {KeyA, KeyAr, KeyB}),
   Scenario("byIdNoCache", {Undef}, {KeyA, KeyAr, KeyB}),
   Scenario("byIdOwnMap", {Undef}, {KeyA, KeyB}),
   Scenario("byIdCustom", {Undef}, {KeyA, KeyC}),
   Scenario("best", {Undef}, {KeyA, KeyAr, KeyB}),
   Scenario("bestSigned", {Undef}, {KeyA, KeyB}),
   Scenario("byFkMatch", {Undef, KeyA, KeyAr}, {KeyA, KeyAr}),
   Scenario("byFkSkip", {Undef, KeyA}, {KeyA, KeyAr, KeyB}),
   Scenario("byFkSmall", {Undef}, {KeyA, KeyAr, KeyB}),
   Scenario("byFksMatch", {Undef}, {KeyA, KeyAr, KeyB}),
   Scenario("byFkFilter", {Undef, KeyA}, {KeyA, KeyB}),
   Scenario("byFk", {Undef}, {KeyA, KeyB}),
   Scenario("byFks", {Undef}, {KeyA, KeyB}),
   Scenario("joined", {Undef}, {KeyA, KeyB}),
   Scenario("parent", {Undef}, {KeyA, KeyB}),
   WithoutContext(Scenario("byId", {Undef}, {KeyA})),
   WithoutContext(Scenario("byFkSkip", {Undef}, {KeyA}))}

\* No constructor, register or getCache call yet.
NoRet == [op |-> ""]

InitWith(S) ==
  /\ scn \in S
  /\ loaders = [f \in scn.facs |-> <<>>]
  /\ context = [f \in scn.facs |-> DataLoaderFactory(scn.given[f])]
  /\ execs = <<>>
  /\ batches = <<>>
  /\ prom = <<>>
  /\ calls = <<>>
  /\ many = <<>>
  /\ last = [b |-> 0, items |-> <<>>]
  /\ clears = [f \in scn.facs |-> 0]
  /\ maps = [name \in {n \in LoaderNames : OwnMap(Def(n))} |-> <<>>]
  /\ ret = NoRet

Init == InitWith(Scenarios)

SetLib(st) ==
  /\ loaders' = st.loaders
  /\ execs' = st.execs
  /\ batches' = st.batches
  /\ prom' = st.prom
  /\ maps' = st.maps

\* One load() call: the arguments the application passed (Factory, definition,
\* filters, key, the clear() calls made before it) and what it got.
CallRec(f, name, filters, e, key, ld, m) ==
  [fac |-> f, def |-> name, filters |-> filters, epoch |-> clears[f],
   ex |-> e, key |-> key, pid |-> ld.pid, hit |-> ld.hit, many |-> m]

\* factory.get(loader, filters): the executor is built if absent.
Get(f, name, filters) ==
  /\ Len(execs) < MaxBareExecs
  /\ SetLib(factoryGet(Lib, f, name, filters).st)
  /\ UNCHANGED <<scn, context, ret, calls, many, last, clears>>

\* factory.get(loader, filters).load(key)
Load(f, name, filters, key) ==
  /\ Len(calls) < MaxLoads
  /\ LET got == factoryGet(Lib, f, name, filters)
         ld == dlLoad(got.st, got.ex, key)
     IN /\ SetLib(ld.st)
        /\ calls' = Append(calls, CallRec(f, name, filters, got.ex, key, ld, 0))
  /\ UNCHANGED <<scn, context, ret, many, last, clears>>

\* keys.map(async k => await dl.load(k)) of loadMany
RECURSIVE loadEach(_, _, _, _)
loadEach(st, e, keys, acc) ==
  IF keys = <<>> THEN [st |-> st, lds |-> acc]
  ELSE LET ld == dlLoad(st, e, Head(keys))
       IN loadEach(ld.st, e, Tail(keys), Append(acc, ld))

\* The promise dl.load(k) returned, as its caller sees it: a cache hit is
\* released when the batch it joined completes, and then follows the cached
\* promise.
loadState(c, bts, p) ==
  IF c.hit # 0 /\ bts[c.hit].st \in {"open", "fetching"} THEN [st |-> "pending"]
  ELSE p[c.pid]

Pending == [st |-> "pending"]
Rejected == [st |-> "rejected"]

\* (mutant) a loadMany that waits for every load and keeps what resolved
awaitEach(states) ==
  IF \E i \in DOMAIN states : states[i].st = "pending" THEN Pending
  ELSE LET ok == SelectSeq(states, LAMBDA s : s.st = "resolved")
       IN [st |-> "resolved", val |-> [i \in DOMAIN ok |-> ok[i].val]]

\* await Promise.all(...): rejected as soon as one load is, resolved with
\* the values in the order of the loads once every load has resolved.
awaitAll(states) ==
  IF \E i \in DOMAIN states : states[i].st = "rejected" THEN Rejected
  ELSE IF \E i \in DOMAIN states : states[i].st = "pending" THEN Pending
  ELSE [st |-> "resolved", val |-> [i \in DOMAIN states |-> states[i].val]]

\* .filter(r => typeof r !== 'undefined')
dropUndefined(vals) == SelectSeq(vals, LAMBDA v : v # UndefVal)

\* (mutant) a loadMany that returns the per-key arrays
notFlat(vals) == vals

\* Array.prototype.flat(): the elements of every array, other values kept.
RECURSIVE flat(_)
flat(vals) ==
  IF vals = <<>> THEN <<>>
  ELSE LET v == Head(vals)
       IN (IF v.t = "array" THEN [i \in DOMAIN v.v |-> RowVal(v.v[i])] ELSE <<v>>)
          \o flat(Tail(vals))

\* (mutant) a unique that keeps every element
uniqueAll(vals, fn) == vals

\* unique (txstate-utils): the first element of every distinct fn(element).
RECURSIVE unique(_, _)
unique(vals, fn) ==
  IF vals = <<>> THEN <<>>
  ELSE LET init == SubSeq(vals, 1, Len(vals) - 1)
           v == vals[Len(vals)]
       IN IF \E i \in DOMAIN init : access(fn, init[i].v) = access(fn, v.v)
          THEN unique(init, fn)
          ELSE Append(unique(init, fn), v)

\* What loadMany returns from the values of its loads, by kind of loader.
loadManyResult(def, vals) ==
  IF def.kind = "ParentDocument" THEN unique(dropUndefined(vals), def.extractId)
  ELSE IF def.kind \in {"PrimaryKey", "BestMatch"} THEN dropUndefined(vals)
  ELSE IF IsMany(def) THEN flat(vals)
  ELSE <<>>

\* The loads of loadMany call m, in the order of its keys.
LoadsOf(m, cs) == [i \in 1..m.n |-> cs[m.first + i - 1]]

\* loadMany after its await: it throws when Promise.all rejected and returns
\* once Promise.all resolved; a settled call stays as it is.
settleMany(ms, cs, bts, p) ==
  [m \in DOMAIN ms |->
     IF ms[m].out.st # "pending" THEN ms[m]
     ELSE LET all == awaitAll([i \in 1..ms[m].n |-> loadState(LoadsOf(ms[m], cs)[i], bts, p)])
          IN [ms[m] EXCEPT !.out =
                IF all.st = "resolved"
                THEN [st |-> "resolved", val |-> loadManyResult(Def(ms[m].def), all.val)]
                ELSE all]]

\* factory.loadMany(loader, keys, filter)
LoadMany(f, name, keys, filters) ==
  /\ Len(many) < MaxMany
  /\ Len(calls) + Len(keys) <= MaxLoads
  /\ LET got == factoryGet(Lib, f, name, filters)
         res == loadEach(got.st, got.ex, keys, <<>>)
         m == Len(many) + 1
     IN /\ SetLib(res.st)
        /\ calls' = calls \o [i \in 1..Len(keys) |-> CallRec(f, name, filters, got.ex, keys[i],
                                                          res.lds[i], m)]
        /\ many' = settleMany(Append(many, [def |-> name, first |-> Len(calls) + 1,
                                            n |-> Len(keys), out |-> Pending]),
                              calls', batches', prom')
  /\ UNCHANGED <<scn, context, ret, last, clears>>

\* The end of a scheduling turn: DataLoader dispatches every batch created in
\* it.  A batch with keys calls its batch function, which runs up to its
\* await of fetch; a batch of cache hits only makes no call.
dispatchBatch(b) ==
  LET bt == batches[b]
      ex == execs[bt.ex]
      def == Def(ex.def)
  IN IF bt.st # "open" THEN bt
     ELSE IF bt.keys = <<>> THEN [bt EXCEPT !.st = "done"]
     ELSE [bt EXCEPT !.st = "fetching",
                     !.call = [made |-> TRUE, keys |-> FetchKeys(def, bt.keys),
                               filters |-> ex.filters, context |-> Context(ex.fac)]]

EndTurn ==
  /\ \E b \in DOMAIN batches : batches[b].st = "open"
  /\ batches' = [b \in DOMAIN batches |-> dispatchBatch(b)]
  /\ many' = settleMany(many, calls, batches', prom)
  /\ UNCHANGED <<scn, context, ret, loaders, execs, prom, calls, last, clears, maps>>

\* DataLoader's failedDispatch on the cache: loader.clear(key) for every key
\* of the batch.
failedDispatch(st, e, def, keys) ==
  setCacheMap(st, e, Without(cacheMap(st, e), {cacheKeyFn(def, keys[i]) : i \in DOMAIN keys}))

\* The loaders, executors and caches of library state st become the
\* program's.
SetFactories(st) ==
  /\ loaders' = st.loaders
  /\ execs' = st.execs
  /\ maps' = st.maps

\* DataLoader settling batch b from library state st: with the values the
\* batch function returned or, when it threw, by its failedDispatch.
batchSettles(b, items, bt, def, st, values, threw) ==
  IF threw
  THEN /\ SetFactories(failedDispatch(st, bt.ex, def, bt.keys))
       /\ prom' = rejectAll(st.prom, bt.pids)
       /\ batches' = [batches EXCEPT ![b].st = "threw"]
       /\ last' = last
  ELSE /\ SetFactories(st)
       /\ prom' = resolveAll(st.prom, bt.pids, values)
       /\ batches' = [batches EXCEPT ![b].st = "done"]
       /\ last' = [b |-> b, items |-> items]

\* The batch function of batch bt, of executor ex of definition def, after
\* its fetch resolved with items: it filters, primes and groups, or throws
\* while it primes.
batchReturns(b, items, bt, ex, def) ==
  batchSettles(b, items, bt, def,
               primeAll(Lib, ex.fac, def.idLoaders, PrimeItems(def, items, ex.filters)),
               BatchResults(def, bt.keys, items, ex.filters),
               batchThrows(def, items, ex.filters))

\* The fetch of batch b resolved with items: the rest of the batch function
\* (filter, prime, group) and DataLoader resolving every load of the batch.
FetchResolve(b, items) ==
  /\ batches[b].st = "fetching"
  /\ batchReturns(b, items, batches[b], execs[batches[b].ex], Def(execs[batches[b].ex].def))
  /\ many' = settleMany(many, calls, batches', prom')
  /\ UNCHANGED <<scn, context, ret, calls, clears>>

\* The fetch of batch b rejected: DataLoader's failedDispatch.
FetchReject(b) ==
  /\ batches[b].st = "fetching"
  /\ LET bt == batches[b]
         def == Def(execs[bt.ex].def)
         gone == {cacheKeyFn(def, bt.keys[i]) : i \in DOMAIN bt.keys}
         st1 == setCacheMap(Lib, bt.ex, Without(cacheMap(Lib, bt.ex), gone))
     IN /\ execs' = st1.execs
        /\ maps' = st1.maps
        /\ prom' = rejectAll(prom, bt.pids)
        /\ batches' = [batches EXCEPT ![b].st = "failed"]
  /\ many' = settleMany(many, calls, batches', prom')
  /\ UNCHANGED <<scn, context, ret, loaders, calls, last, clears>>

\* (mutant) a clear() that keeps the executors
ClearKeeps(f) ==
  /\ clears[f] < MaxClears
  /\ clears' = [clears EXCEPT ![f] = @ + 1]
  /\ UNCHANGED <<scn, context, ret, loaders, execs, batches, prom, calls, many, last, maps>>

\* factory.clear()
Clear(f) ==
  /\ clears[f] < MaxClears
  /\ loaders' = [loaders EXCEPT ![f] = <<>>]
  /\ clears' = [clears EXCEPT ![f] = @ + 1]
  /\ UNCHANGED <<scn, context, ret, execs, batches, prom, calls, many, last, maps>>

DoGet == \E f \in scn.facs, name \in Loadable, filters \in Filters : Get(f, name, filters)

DoLoad ==
  \E f \in scn.facs, name \in Loadable, filters \in Filters, key \in LoadKeys :
    Load(f, name, filters, key)

DoLoadMany ==
  \E f \in scn.facs, name \in Loadable, filters \in Filters,
     keys \in SeqsUpTo(LoadKeys, MaxLoads) : LoadMany(f, name, keys, filters)

DoFetchResolve ==
  \E b \in DOMAIN batches :
    \E items \in FetchResults(Def(execs[batches[b].ex].def), MaxFetched) :
      FetchResolve(b, items)

DoFetchResolveWide ==
  \E b \in DOMAIN batches :
    \E items \in FetchResults(Def(execs[batches[b].ex].def), MaxItems) :
      FetchResolve(b, items)

DoFetchReject == \E b \in DOMAIN batches : FetchReject(b)

DoClear == \E f \in scn.facs : Clear(f)

\* The Factory under single loads and clear().
Next == DoGet \/ DoLoad \/ EndTurn \/ DoFetchResolve \/ DoFetchReject \/ DoClear

Spec == Init /\ [][Next]_vars

\* The Factory under load() and loadMany().
NextMany == DoGet \/ DoLoad \/ DoLoadMany \/ EndTurn \/ DoFetchResolve \/ DoFetchReject

SpecMany == Init /\ [][NextMany]_vars

\* The batch functions under whatever a fetch may return.
NextBatch == DoLoadMany \/ EndTurn \/ DoFetchResolveWide

SpecBatch == Init /\ [][NextBatch]_vars

\* The batch functions of the definitions that narrow by keysFromFilter.
FilterScenarios ==
  {Scenario("byFkFilter", {Undef, KeyA}, {KeyA, KeyAr, KeyB}),
   Scenario("byFkMatchFilter", {Undef, KeyA}, {KeyA, KeyB}),
   Scenario("byFksFilter", {Undef, KeyAr, KeyB}, {KeyA, KeyB}),
   Scenario("joinedFilter", {Undef, KeyA}, {KeyA, KeyB})}

SpecFilter == InitWith(FilterScenarios) /\ [][NextBatch]_vars

\* The Factory under loads through definitions that prime idLoaders, one of
\* them with an extractId that throws on some rows.
PrimeScenarios ==
  {Scenario("byFkStrict", {Undef}, {KeyA, KeyB}),
   Scenario("joined", {Undef}, {KeyA})}

SpecPrime == InitWith(PrimeScenarios) /\ [][Next]_vars

\* Two Factories that load through the same definitions.
TwoFactoryScenarios ==
  {TwoFactories(Scenario("byFk", {Undef}, {KeyA})),
   TwoFactories(Scenario("byId", {Undef}, {KeyA, KeyAr}))}

SpecTwo == InitWith(TwoFactoryScenarios) /\ [][Next]_vars

\* The batch functions of the *-to-many definitions that do not cache, which
\* may be asked for one key several times in a batch.
SkipCacheScenarios ==
  {Scenario("byFkSkip", {Undef}, {KeyA, KeyAr, KeyB}),
   Scenario("byFkMatchSkip", {Undef}, {KeyA, KeyAr, KeyB}),
   Scenario("byFksSkip", {Undef}, {KeyA, KeyAr, KeyB}),
   Scenario("byFksMatchSkip", {Undef}, {KeyA, KeyAr, KeyB}),
   Scenario("joinedSkip", {Undef}, {KeyA, KeyAr, KeyB})}

SpecSkipCache == InitWith(SkipCacheScenarios) /\ [][NextBatch]_vars

\* The batches of the definitions that narrow by keysFromFilter and prime
\* idLoaders, under whatever a fetch may return or reject with.
FilterPrimeScenarios ==
  {Scenario("byFkFilter", {Undef, KeyA}, {KeyA, KeyB}),
   Scenario("byFksFilterPrime", {Undef, KeyB}, {KeyA}),
   Scenario("joinedFilterPrime", {Undef, KeyA}, {KeyB})}

NextFilterPrime == DoLoadMany \/ EndTurn \/ DoFetchResolveWide \/ DoFetchReject

SpecFilterPrime == InitWith(FilterPrimeScenarios) /\ [][NextFilterPrime]_vars

\* -------------------------------------------------------------- getCache
\* (mutant) a getCache that looks under the storage object of no filters
loaderGetCacheUnfiltered(st, def, cached, filters) ==
  IF filterstring(Undef) \notin DOMAIN cached \/ def.config.skipCache THEN 0
  ELSE cached[filterstring(Undef)]

\* BaseManyLoader.getCache: the cache of the storage object of the filters,
\* undefined (0) without a storage object or without a cache.
loaderGetCache(st, def, cached, filters) ==
  IF filterstring(filters) \notin DOMAIN cached \/ def.config.skipCache THEN 0
  ELSE cached[filterstring(filters)]

\* factory.getCache(loader, filters): undefined, the Map of an executor, or
\* an Error thrown.  A ParentDocumentLoader has no getCache method to call.
getCache(st, f, name, filters) ==
  LET def == Def(name)
  IN IF name \notin DOMAIN st.loaders[f] THEN [t |-> "undefined"]
     ELSE IF def.kind \in {"PrimaryKey", "BestMatch"}
     THEN [t |-> "map", ex |-> st.loaders[f][name]]
     ELSE IF ~IsMany(def) THEN [t |-> "throws", error |-> "TypeError"]
     ELSE LET cache == loaderGetCache(st, def, st.loaders[f][name], filters)
          IN IF cache = 0 THEN [t |-> "throws", error |-> "skipCache"]
             ELSE [t |-> "map", ex |-> cache]

GetCache(f, name, filters) ==
  /\ ret' = [op |-> "getCache", fac |-> f, def |-> name, filters |-> filters,
             out |-> getCache(Lib, f, name, filters)]
  /\ UNCHANGED <<scn, context, loaders, execs, batches, prom, calls, many, last, clears, maps>>

DoGetCache ==
  \E f \in scn.facs, name \in Loadable, filters \in Filters : GetCache(f, name, filters)

\* The runs in which the application asks for caches: a *-to-many definition
\* with skipCache, one that caches under two filters, one that caches and
\* primes byId, a PrimaryKeyLoader and a ParentDocumentLoader.
CacheScenarios ==
  {Scenario("byFkSkip", {Undef, KeyA}, {KeyA}),
   Scenario("byFkMatch", {Undef, KeyA}, {KeyA, KeyB}),
   Scenario("byFk", {Undef}, {KeyA, KeyB}),
   Scenario("byId", {Undef}, {KeyA, KeyAr, KeyB}),
   Scenario("parent", {Undef}, {KeyA})}

\* The Factory under loads, clear() and getCache().
NextCache == DoGet \/ DoLoad \/ EndTurn \/ DoFetchResolve \/ DoClear \/ DoGetCache

SpecCache == InitWith(CacheScenarios) /\ [][NextCache]_vars

\* --------------------------------------------------------- construction
\* The config objects an application may hand to a *-to-many constructor.
Configs ==
  {[NoConfig EXCEPT !.extractKey = ek, !.extractKeys = eks, !.matchKey = mk,
                    !.keysFromFilter = kf, !.skipCache = sc] :
     ek \in {"", "fk"}, eks \in {"", "fks"}, mk \in {"", "fk", "fks"},
     kf \in {"", "keys"}, sc \in BOOLEAN}

construct(kind, config) ==
  CASE kind = "OneToMany" -> OneToManyLoader(config)
    [] kind = "ManyToMany" -> ManyToManyLoader(config)
    [] kind = "ManyJoined" -> ManyJoinedLoader(config)

\* new OneToManyLoader(config) and the like: the caller gets the definition,
\* or the Error thrown and no object.
New(kind, config) ==
  /\ LET def == construct(kind, config)
     IN ret' = [op |-> "new", kind |-> kind, config |-> config, thrown |-> def.thrown,
                defs |-> IF def.thrown THEN <<>> ELSE <<def>>]
  /\ UNCHANGED <<scn, context, loaders, execs, batches, prom, calls, many, last, clears, maps>>

\* The checks of the string-keyed DataLoaderFactory.registerOneToMany and
\* registerManyToMany: whether the call throws.
registerOneToMany(config) ==
  \/ (config.extractKey = "" /\ config.matchKey = "")
  \/ (config.extractKey # "" /\ config.matchKey # "")

registerManyToMany(config) == config.extractKeys = "" /\ config.matchKey = ""

\* DataLoaderFactory.registerOneToMany(key, config) and registerManyToMany:
\* the config enters the registry unless the call throws.
Register(kind, config) ==
  /\ LET thrown == IF kind = "OneToMany" THEN registerOneToMany(config)
                   ELSE registerManyToMany(config)
     IN ret' = [op |-> "register", kind |-> kind, config |-> config, thrown |-> thrown,
                defs |-> IF thrown THEN <<>> ELSE <<config>>]
  /\ UNCHANGED <<scn, context, loaders, execs, batches, prom, calls, many, last, clears, maps>>

DoNew == \E kind \in {"OneToMany", "ManyToMany", "ManyJoined"}, config \in Configs :
           New(kind, config)

DoRegister == \E kind \in {"OneToMany", "ManyToMany"}, config \in Configs :
                Register(kind, config)

\* An application that constructs Loader Definitions.
NextConstruct == DoNew \/ DoRegister

SpecConstruct == InitWith({Scenario("byFk", {Undef}, {KeyA})}) /\ [][NextConstruct]_vars

\* ------------------------------------------------------------ the claims
\* The batch a load() call joined: the batch that holds its promise, or for
\* a cache hit the batch whose dispatch releases it.
BatchOfCall(i) ==
  IF calls[i].hit # 0 THEN calls[i].hit
  ELSE CHOOSE b \in DOMAIN batches :
         \E j \in DOMAIN batches[b].pids : batches[b].pids[j] = calls[i].pid

\* The load() calls made on executor e in the current turn.
TurnCalls(e) ==
  {i \in DOMAIN calls : calls[i].ex = e /\ batches[BatchOfCall(i)].st = "open"}

StringsOf(def, keys) == {cacheKeyFn(def, keys[i]) : i \in DOMAIN keys}
EachOnce(def, keys) ==
  \A i, j \in DOMAIN keys : i # j => cacheKeyFn(def, keys[i]) # cacheKeyFn(def, keys[j])

\* A step that ends the turn, and the batches of e whose fetch it invokes.
IsEndTurn == \E b \in DOMAIN batches : batches[b].st = "open" /\ batches'[b].st # "open"
Invoked(e) ==
  {b \in DOMAIN batches : batches[b].ex = e /\ batches[b].st = "open" /\ batches'[b].call.made}

Max(S) == CHOOSE x \in S : \A y \in S : y <= x
Reverse(s) == [i \in 1..Len(s) |-> s[Len(s) + 1 - i]]

LastBatch == batches[last.b]
LastExec == execs[LastBatch.ex]
LastDef == Def(LastExec.def)

\* What the load at position j of batch b settled with.
Settled(b, j) == prom[batches[b].pids[j]]
Resolved(v) == [st |-> "resolved", val |-> v]

\* The positions of the fetched rows whose extracted id stringifies like k.
RowsFor(def, k, items) ==
  {i \in DOMAIN items : cacheKeyFn(def, access(def.extractId, items[i])) = cacheKeyFn(def, k)}

\* C2 as stated: every load of a PrimaryKeyLoader batch resolves to a fetched
\* row whose extracted id stringifies like its key, to undefined when there is
\* none, and to the same value when the fetch returns its rows in another order.
C2_Original ==
  (last.b # 0 /\ LastDef.kind = "PrimaryKey") =>
    \A j \in DOMAIN LastBatch.keys :
      LET k == LastBatch.keys[j]
          got == Settled(last.b, j)
          at == RowsFor(LastDef, k, last.items)
      IN /\ got.st = "resolved"
         /\ IF at = {} THEN got.val = UndefVal
            ELSE \E i \in at : got.val = RowVal(last.items[i])
         /\ got.val = PrimaryKeyResults(LastDef, <<k>>, Reverse(last.items))[1]

\* C2 (amended): every load of a PrimaryKeyLoader batch resolves to the last
\* fetched row, in fetch order, whose extracted id stringifies like its key,
\* and to undefined when there is none, whatever its position among the loads.
C2_ByKey ==
  (last.b # 0 /\ LastDef.kind = "PrimaryKey") =>
    \A j \in DOMAIN LastBatch.keys :
      LET at == RowsFor(LastDef, LastBatch.keys[j], last.items)
      IN Settled(last.b, j) =
           Resolved(IF at = {} THEN UndefVal ELSE RowVal(last.items[Max(at)]))

\* Two different fetched rows share the id of a key; its load got the later.
C2_Witness ==
  /\ last.b # 0
  /\ LastDef.kind = "PrimaryKey"
  /\ Len(LastBatch.keys) = 2
  /\ \E j \in DOMAIN LastBatch.keys :
       /\ RowsFor(LastDef, LastBatch.keys[j], last.items) = {1, 2}
       /\ last.items[1] # last.items[2]
       /\ Settled(last.b, j) = Resolved(RowVal(last.items[2]))

\* Row r is associated with key k by the definition's extractKey, extractKeys
\* or {key, value} pairs.
Assoc(def, r, k) ==
  CASE def.groupBy = "extractKey" ->
         cacheKeyFn(def, access(def.config.extractKey, r)) = cacheKeyFn(def, k)
    [] def.groupBy = "extractKeys" ->
         \E i \in DOMAIN access(def.config.extractKeys, r) :
           cacheKeyFn(def, access(def.config.extractKeys, r)[i]) = cacheKeyFn(def, k)
    [] def.groupBy = "joined" -> cacheKeyFn(def, r.key) = cacheKeyFn(def, k)
    [] OTHER -> FALSE

\* Row r survives the definition's keysFromFilter narrowing under filters.
Survives(def, r, filters) ==
  LET ks == IF def.config.keysFromFilter = "" THEN <<>>
            ELSE filterKeys(def.config.keysFromFilter, filters)
  IN ks = <<>> \/ def.groupBy = "matchKey" \/ \E i \in DOMAIN ks : Assoc(def, r, ks[i])

\* The rows handed to callers and to idLoaders: the value of a pair.
ValuesOf(def, rows) ==
  IF def.kind = "ManyJoined" THEN [i \in DOMAIN rows |-> rows[i].value] ELSE rows

\* C3 as stated: every load of an extractKey, extractKeys or ManyJoined batch
\* resolves to the surviving fetched rows associated with its key, in fetch
\* order, each as often as the fetch returned it, and to nothing else.
C3_Original ==
  (last.b # 0 /\ IsMany(LastDef) /\ LastDef.groupBy # "matchKey") =>
    \A j \in DOMAIN LastBatch.keys :
      LET keep(r) == Survives(LastDef, r, LastExec.filters)
                     /\ Assoc(LastDef, r, LastBatch.keys[j])
      IN Settled(last.b, j) =
           Resolved(ArrVal(ValuesOf(LastDef, SelectSeq(last.items, keep))))

\* No fetched row matches key k: by id, by child id, by score, by matchKey, or
\* by extracted key among the rows that survive keysFromFilter.
NoMatch(def, k, items, filters) ==
  CASE def.kind = "PrimaryKey" -> RowsFor(def, k, items) = {}
    [] def.kind = "ParentDocument" ->
         \A i \in DOMAIN items :
           \A c \in DOMAIN access(def.config.childIds, items[i]) :
             cacheKeyFn(def, access(def.config.childIds, items[i])[c]) # cacheKeyFn(def, k)
    [] def.kind = "BestMatch" ->
         \A i \in DOMAIN items : score(def.config.scoreMatch, k, items[i]) = 0
    [] OTHER ->
         IF def.groupBy = "matchKey"
         THEN \A i \in DOMAIN items : ~matches(def.config.matchKey, k, items[i])
         ELSE \A i \in DOMAIN items :
                ~(Survives(def, items[i], filters) /\ Assoc(def, items[i], k))

\* C4: a load whose key no fetched row matches resolves, to undefined for the
\* PrimaryKey, BestMatch and ParentDocument kinds and to the empty array for
\* the *-to-many kinds.
C4_MissingKey ==
  last.b # 0 =>
    \A j \in DOMAIN LastBatch.keys :
      NoMatch(LastDef, LastBatch.keys[j], last.items, LastExec.filters)
        => Settled(last.b, j) =
             Resolved(IF IsMany(LastDef) THEN ArrVal(<<>>) ELSE UndefVal)

\* A *-to-many batch of two keys whose fetch returned rows for one key only:
\* the other load resolved to the empty array.
C4_Witness ==
  /\ last.b # 0
  /\ IsMany(LastDef)
  /\ last.items # <<>>
  /\ \E i, j \in DOMAIN LastBatch.keys :
       /\ NoMatch(LastDef, LastBatch.keys[i], last.items, LastExec.filters)
       /\ Settled(last.b, i) = Resolved(ArrVal(<<>>))
       /\ Settled(last.b, j).val.v # <<>>

\* ------------------------------------------------ caches and executors
DefOfCall(i) == Def(calls[i].def)
KeyString(i) == cacheKeyFn(DefOfCall(i), calls[i].key)

\* The batch that holds the promise of call i (none for a primed promise).
PromBatches(pid) ==
  {b \in DOMAIN batches : \E j \in DOMAIN batches[b].pids : batches[b].pids[j] = pid}

\* Calls i and j asked the same executor for the same stringified key.
SameKey(i, j) == calls[i].ex = calls[j].ex /\ KeyString(i) = KeyString(j)

\* The fetch calls of executor e that received the stringified key s and did
\* not fail.
FetchesOf(e, s) ==
  {b \in DOMAIN batches :
     /\ batches[b].ex = e
     /\ batches[b].call.made
     /\ batches[b].st # "failed"
     /\ s \in StringsOf(Def(execs[e].def), batches[b].call.keys)}

\* C5: with caching enabled, the load() calls made on one executor for one
\* stringified key share one promise, hence one result, and the key is handed
\* to at most one fetch call, as long as the first of them was not rejected.
C5_CacheReuse ==
  \A i, j \in DOMAIN calls :
    (i < j /\ SameKey(i, j) /\ DefOfCall(i).useCache /\ prom[calls[i].pid].st # "rejected")
      => /\ calls[j].pid = calls[i].pid
         /\ Cardinality(FetchesOf(calls[i].ex, KeyString(i))) <= 1

\* A load of a key in one property order, and after its batch resolved a load
\* of the same key in another property order that was answered from the cache.
C5_Witness ==
  \E i, j \in DOMAIN calls :
    /\ i < j
    /\ SameKey(i, j)
    /\ calls[i].key # calls[j].key
    /\ calls[j].hit # 0
    /\ calls[j].hit \notin PromBatches(calls[i].pid)
    /\ prom[calls[j].pid].st = "resolved"
    /\ Cardinality(FetchesOf(calls[i].ex, KeyString(i))) = 1

\* Calls i and j went through one Factory and one *-to-many definition with
\* filters that stringify differently.
OtherFilter(i, j) ==
  /\ calls[i].fac = calls[j].fac
  /\ calls[i].def = calls[j].def
  /\ IsMany(DefOfCall(i))
  /\ stringify(calls[i].filters) # stringify(calls[j].filters)

\* C6: two loads through one *-to-many definition under filters that
\* stringify differently use different executors, promises and batches; a
\* call that missed the cache has its own fetch call once its turn ended, and
\* every fetch call receives the filter of the loads it serves.
C6_FilterIsolation ==
  \A i, j \in DOMAIN calls :
    OtherFilter(i, j) =>
      /\ calls[i].ex # calls[j].ex
      /\ calls[i].pid # calls[j].pid
      /\ BatchOfCall(i) # BatchOfCall(j)
      /\ PromBatches(calls[i].pid) \cap PromBatches(calls[j].pid) = {}
      /\ \A b \in PromBatches(calls[i].pid) :
           /\ batches[b].st # "open" => batches[b].call.made
           /\ batches[b].call.made =>
                stringify(batches[b].call.filters) = stringify(calls[i].filters)

\* The same key loaded under two filters: two fetch calls, each with its filter.
C6_Witness ==
  \E i, j \in DOMAIN calls :
    /\ OtherFilter(i, j)
    /\ calls[i].key = calls[j].key
    /\ \A c \in {i, j} :
         \E b \in PromBatches(calls[c].pid) :
           /\ batches[b].st = "fetching"
           /\ batches[b].call.filters = calls[c].filters

\* C7: between two clear() calls a Factory answers get() with one executor
\* per definition and stringified filter, and one per definition whatever the
\* filter for the PrimaryKey, BestMatch and ParentDocument kinds; it never
\* builds a second one.
C7_Memoized ==
  /\ \A i, j \in DOMAIN calls :
       (/\ calls[i].fac = calls[j].fac
        /\ calls[i].def = calls[j].def
        /\ calls[i].epoch = calls[j].epoch
        /\ IsMany(DefOfCall(i)) => stringify(calls[i].filters) = stringify(calls[j].filters))
         => calls[i].ex = calls[j].ex
  /\ \A e1, e2 \in DOMAIN execs :
       (/\ e1 # e2
        /\ execs[e1].fac = execs[e2].fac
        /\ execs[e1].def = execs[e2].def
        /\ execs[e1].epoch = execs[e2].epoch)
         => /\ IsMany(Def(execs[e1].def))
            /\ stringify(execs[e1].filters) # stringify(execs[e2].filters)
  /\ \A f \in scn.facs, name \in Loadable, f1, f2 \in Filters :
       (IsMany(Def(name)) => stringify(f1) = stringify(f2))
         => LET first == factoryGet(Lib, f, name, f1)
            IN factoryGet(first.st, f, name, f2).ex = first.ex

\* Two loads under filters that differ in property order only reached one
\* executor.
C7_Witness ==
  \E i, j \in DOMAIN calls :
    /\ i # j
    /\ IsMany(DefOfCall(i))
    /\ calls[i].def = calls[j].def
    /\ calls[i].filters # calls[j].filters
    /\ stringify(calls[i].filters) = stringify(calls[j].filters)
    /\ calls[i].ex = calls[j].ex

\* ---------------------------------------------------- priming and clear()
\* The step completes the batch function of batch b.
Completes(b) == batches[b].st = "fetching" /\ batches'[b].st = "done"

\* The id under which idLoader T caches row r.
PrimedKey(T, r) == cacheKeyFn(Def(T), access(Def(T).extractId, r))

\* After the step, the executor of T in Factory f holds an entry for row r.
HasEntry(f, T, r) ==
  /\ T \in DOMAIN loaders'[f]
  /\ PrimedKey(T, r) \in DOMAIN cacheMap(Lib, loaders[f][T])'

\* Before the step, the executor of T in Factory f held an entry for row r.
HadEntry(f, T, r) ==
  /\ T \in DOMAIN loaders[f]
  /\ PrimedKey(T, r) \in DOMAIN cacheMap(Lib, loaders[f][T])

FirstAfterClear(i) ==
  /\ calls[i].epoch >= 1
  /\ ~\E j \in 1..(i - 1) :
        /\ calls[j].fac = calls[i].fac
        /\ calls[j].def = calls[i].def
        /\ calls[j].epoch = calls[i].epoch
        /\ KeyString(j) = KeyString(i)
        /\ IsMany(DefOfCall(i)) => stringify(calls[j].filters) = stringify(calls[i].filters)

\* Call i missed the cache, and its key is handed to fetch once its turn ends.
Fetches(i) ==
  /\ calls[i].hit = 0
  /\ \A b \in PromBatches(calls[i].pid) :
       batches[b].st # "open"
         => /\ batches[b].call.made
            /\ KeyString(i) \in StringsOf(DefOfCall(i), batches[b].call.keys)

StatesOf(b) == {prom[batches[b].pids[j]].st : j \in DOMAIN batches[b].pids}

\* C10: the loads of a batch whose fetch rejected are all rejected, the loads
\* of a batch whose fetch resolved are all resolved, and until then they are
\* all pending: a batch never holds a resolved and a rejected load.
C10_AllReject ==
  \A b \in DOMAIN batches :
    /\ batches[b].st = "failed" => StatesOf(b) \subseteq {"rejected"}
    /\ batches[b].st = "done" => StatesOf(b) \subseteq {"resolved"}
    /\ batches[b].st \in {"open", "fetching"} => StatesOf(b) \subseteq {"pending"}
    /\ Cardinality(StatesOf(b)) <= 1

\* The fetch of a batch of two loads rejected, and both loads with it.
C10_Witness ==
  \E b \in DOMAIN batches :
    /\ batches[b].st = "failed"
    /\ Len(batches[b].pids) = 2
    /\ StatesOf(b) = {"rejected"}

\* The stringified keys of batch b and the promises it holds.
BatchStrings(b) == StringsOf(Def(execs[batches[b].ex].def), batches[b].keys)
BatchPids(b) == {batches[b].pids[j] : j \in DOMAIN batches[b].pids}

\* The load() calls a step makes.
NewCalls == (DOMAIN calls') \ (DOMAIN calls)

\* C11: once the fetch of a batch has rejected, the cache of its executor
\* holds no promise of that batch under any of its keys, and no load() is
\* ever answered with a promise that had already been rejected: a later load
\* of such a key misses the cache and joins a batch that calls fetch.
C11_NoCachedFailure ==
  [][/\ \A b \in DOMAIN batches' :
          batches'[b].st = "failed"
          => \A s \in BatchStrings(b)' :
               s \in DOMAIN cacheMap(Lib, batches[b].ex)'
               => cacheMap(Lib, batches[b].ex)'[s] \notin BatchPids(b)'
     /\ \A i \in NewCalls :
          calls'[i].pid \in DOMAIN prom => prom[calls'[i].pid].st # "rejected"]_vars

\* C11 happens: a caching executor had a batch fail, a later load of one of
\* its keys missed the cache, and fetch has been called again for it.
C11_Witness ==
  \E b \in DOMAIN batches, i \in DOMAIN calls :
    /\ batches[b].st = "failed"
    /\ DefOfCall(i).useCache
    /\ calls[i].ex = batches[b].ex
    /\ KeyString(i) \in BatchStrings(b)
    /\ calls[i].hit = 0
    /\ \A p \in BatchPids(b) : p < calls[i].pid
    /\ batches[BatchOfCall(i)].call.made

\* The loads of loadMany call m as they stand now.
ManyStates(m) ==
  [i \in 1..many[m].n |-> loadState(LoadsOf(many[m], calls)[i], batches, prom)]

\* C12: a loadMany call one of whose loads has rejected is rejected as a
\* whole, and a loadMany call that resolved had every one of its loads
\* resolve: it never resolves around a failed or an outstanding load.
C12_RejectsWhole ==
  \A m \in DOMAIN many :
    /\ (\E i \in 1..many[m].n : ManyStates(m)[i].st = "rejected")
       => many[m].out.st = "rejected"
    /\ many[m].out.st = "resolved"
       => \A i \in 1..many[m].n : ManyStates(m)[i].st = "resolved"

\* C12 happens: a loadMany call of two keys is rejected although one of its
\* loads resolved with rows.
C12_Witness ==
  \E m \in DOMAIN many :
    /\ many[m].out.st = "rejected"
    /\ \E i, j \in 1..many[m].n :
         /\ ManyStates(m)[i].st = "rejected"
         /\ ManyStates(m)[j].st = "resolved"
         /\ ManyStates(m)[j].val # ArrVal(<<>>)

\* What one load contributes to the result of loadMany: its row unless it is
\* undefined, or the rows of its array.
Contribution(v) ==
  IF v.t = "undefined" THEN <<>>
  ELSE IF v.t = "array" THEN [i \in DOMAIN v.v |-> RowVal(v.v[i])]
  ELSE <<v>>

RECURSIVE Contributions(_)
Contributions(states) ==
  IF states = <<>> THEN <<>>
  ELSE Contribution(Head(states).val) \o Contributions(Tail(states))

\* C13: a resolved loadMany call on a PrimaryKey, BestMatch or *-to-many
\* loader returns what its loads resolved to, concatenated in the order of
\* its keys: the rows that are not undefined, or the elements of the per-key
\* arrays; every element of the result is a row.
C13_Concatenated ==
  \A m \in DOMAIN many :
    (many[m].out.st = "resolved" /\ Def(many[m].def).kind # "ParentDocument")
    => /\ many[m].out.val = Contributions(ManyStates(m))
       /\ \A i \in DOMAIN many[m].out.val : many[m].out.val[i].t = "row"

\* A PrimaryKey or BestMatch loadMany of two keys dropped the undefined
\* result of its first load and returned the row of the second.
DroppedUndefined ==
  \E m \in DOMAIN many :
    /\ many[m].out.st = "resolved"
    /\ many[m].n = 2
    /\ Def(many[m].def).kind \in {"PrimaryKey", "BestMatch"}
    /\ ManyStates(m)[1].val = UndefVal
    /\ Len(many[m].out.val) = 1

\* C13 happens: a *-to-many loadMany of two keys returned the rows of two
\* different non-empty arrays as one array.
C13_Witness ==
  \E m \in DOMAIN many :
    /\ many[m].out.st = "resolved"
    /\ many[m].n = 2
    /\ IsMany(Def(many[m].def))
    /\ \A i \in 1..2 : ManyStates(m)[i].val.v # <<>>
    /\ ManyStates(m)[1].val # ManyStates(m)[2].val

\* The parentId of a row in the result of loadMany call m.
ParentIdOf(m, v) == access(Def(many[m].def).extractId, v.v)

\* C14: a resolved loadMany call on a ParentDocumentLoader returns rows
\* only, no two of them with the same parentId, and among them the parent of
\* every child key whose load found one.
C14_ParentOnce ==
  \A m \in DOMAIN many :
    (many[m].out.st = "resolved" /\ Def(many[m].def).kind = "ParentDocument")
    => LET val == many[m].out.val
       IN /\ \A i \in DOMAIN val : val[i].t = "row"
          /\ \A i, j \in DOMAIN val :
               ParentIdOf(m, val[i]) = ParentIdOf(m, val[j]) => i = j
          /\ \A i \in 1..many[m].n :
               ManyStates(m)[i].val # UndefVal
               => \E j \in DOMAIN val :
                    ParentIdOf(m, val[j]) = ParentIdOf(m, ManyStates(m)[i].val)

\* C14 happens: the two child keys of a loadMany call loaded the same parent
\* and the call returned it once.
C14_Witness ==
  \E m \in DOMAIN many :
    /\ many[m].out.st = "resolved"
    /\ Def(many[m].def).kind = "ParentDocument"
    /\ many[m].n = 2
    /\ calls[many[m].first].key # calls[many[m].first + 1].key
    /\ ManyStates(m)[1].val # UndefVal
    /\ ManyStates(m)[1].val = ManyStates(m)[2].val
    /\ many[m].out.val = <<ManyStates(m)[1].val>>

\* A loadMany call on a ParentDocumentLoader one of whose child keys has no
\* parent returned the parent of the other key only.
ParentOfSome ==
  \E m \in DOMAIN many :
    /\ many[m].out.st = "resolved"
    /\ Def(many[m].def).kind = "ParentDocument"
    /\ many[m].n = 2
    /\ ManyStates(m)[1].val = UndefVal
    /\ Len(many[m].out.val) = 1

\* The positions of the fetched parents that list child key k among their
\* childIds, by stringified form.
ParentsOf(def, k, items) ==
  {i \in DOMAIN items :
     \E c \in DOMAIN access(def.config.childIds, items[i]) :
       cacheKeyFn(def, access(def.config.childIds, items[i])[c]) = cacheKeyFn(def, k)}

ScoreOf(k, i) == score(LastDef.config.scoreMatch, k, last.items[i])

\* C16 as stated: every load of a BestMatchLoader batch resolves to a
\* fetched row only if that row scores strictly above zero for its key and no
\* fetched row scores higher, and to undefined when no fetched row scores
\* above zero.
C16_Original ==
  (last.b # 0 /\ LastDef.kind = "BestMatch") =>
    \A j \in DOMAIN LastBatch.keys :
      LET k == LastBatch.keys[j]
          got == Settled(last.b, j)
      IN /\ got.st = "resolved"
         /\ got.val # UndefVal
            => \E i \in DOMAIN last.items :
                 /\ got.val = RowVal(last.items[i])
                 /\ ScoreOf(k, i) > 0
                 /\ \A h \in DOMAIN last.items : ScoreOf(k, h) <= ScoreOf(k, i)
         /\ (\A i \in DOMAIN last.items : ScoreOf(k, i) <= 0) => got.val = UndefVal

\* The same statement for the batches none of whose fetched rows scores below
\* zero for any of the keys.
BestOfNonNegative ==
  (last.b # 0 /\ LastDef.kind = "BestMatch"
   /\ \A j \in DOMAIN LastBatch.keys, i \in DOMAIN last.items :
        ScoreOf(LastBatch.keys[j], i) >= 0)
  => C16_Original

\* A load resolved to the best of two fetched rows that score above zero.
BestOfTwo ==
  /\ last.b # 0
  /\ LastDef.kind = "BestMatch"
  /\ Len(last.items) = 2
  /\ \E j \in DOMAIN LastBatch.keys :
       /\ ScoreOf(LastBatch.keys[j], 1) = 2
       /\ ScoreOf(LastBatch.keys[j], 2) = 1
       /\ Settled(last.b, j) = Resolved(RowVal(last.items[1]))

\* The config the latest constructor call got names no strategy, or both
\* strategies, of the kind of loader constructed.
Neither ==
  \/ ret.kind = "OneToMany" /\ ret.config.extractKey = "" /\ ret.config.matchKey = ""
  \/ ret.kind = "ManyToMany" /\ ret.config.extractKeys = "" /\ ret.config.matchKey = ""
Both ==
  \/ ret.kind = "OneToMany" /\ ret.config.extractKey # "" /\ ret.config.matchKey # ""
  \/ ret.kind = "ManyToMany" /\ ret.config.extractKeys # "" /\ ret.config.matchKey # ""

\* C17: new OneToManyLoader(config) with neither extractKey nor matchKey, and
\* new ManyToManyLoader(config) with neither extractKeys nor matchKey, throws
\* and leaves the caller without a Loader Definition.
C17_NeitherThrows ==
  (ret.op = "new" /\ Neither) => (ret.thrown /\ ret.defs = <<>>)

\* C17 happens: a OneToManyLoader constructor threw on a config that names
\* extractKeys, the strategy of the other kind, and nothing else.
C17_Witness ==
  /\ ret.op = "new"
  /\ ret.kind = "OneToMany"
  /\ Neither
  /\ ret.config.extractKeys # ""
  /\ ret.thrown

\* A constructor call with exactly one strategy gave a definition.
OneStrategy ==
  /\ ret.op = "new"
  /\ ret.kind = "ManyToMany"
  /\ ~Neither /\ ~Both
  /\ Len(ret.defs) = 1

\* C18 as stated: new OneToManyLoader(config) with both extractKey and
\* matchKey, and new ManyToManyLoader(config) with both extractKeys and
\* matchKey, throws.
C18_Original ==
  (ret.op = "new" /\ Both) => ret.thrown

\* What the constructors do with both strategies: they return a definition
\* that groups by matchKey.
BothGroupsByMatchKey ==
  (ret.op = "new" /\ Both)
  => (~ret.thrown /\ Len(ret.defs) = 1 /\ ret.defs[1].groupBy = "matchKey")

\* The string-keyed registerOneToMany throws on both strategies.
RegisterOneToManyBothThrows ==
  (ret.op = "register" /\ ret.kind = "OneToMany" /\ Both) => ret.thrown

\* A constructor call with both strategies was made.
BothGiven == ret.op = "new" /\ Both

\* Call i went through a *-to-many definition with skipCache.
SkipsCache(i) == IsMany(DefOfCall(i)) /\ DefOfCall(i).config.skipCache

\* The turn of call i has ended and its batch has called fetch with its key.
Fetched(i) ==
  /\ batches[BatchOfCall(i)].call.made
  /\ KeyString(i) \in StringsOf(DefOfCall(i), batches[BatchOfCall(i)].call.keys)

SharedFetch ==
  \E i, j \in DOMAIN calls :
    /\ i < j /\ SkipsCache(i) /\ SameKey(i, j)
    /\ BatchOfCall(i) = BatchOfCall(j)
    /\ Fetched(i)

\* The latest call was getCache on a *-to-many definition with skipCache.
AskedSkipCache ==
  ret.op = "getCache" /\ IsMany(Def(ret.def)) /\ Def(ret.def).config.skipCache

CacheDisabledError == [t |-> "throws", error |-> "skipCache"]

\* C20 as stated: getCache on a *-to-many definition with skipCache throws the
\* cache-disabled error, whatever the state of the Factory, and getCache for
\* an executor that caches and has nothing in its cache does not throw.
C20_Original ==
  /\ AskedSkipCache => ret.out = CacheDisabledError
  /\ \A f \in scn.facs, name \in Loadable, filters \in Filters :
       LET out == getCache(Lib, f, name, filters)
       IN (out.t = "map" /\ cacheMap(Lib, out.ex) = <<>>)
          => (Def(name).useCache /\ out # CacheDisabledError)

\* What getCache does on a definition with skipCache: it throws when the
\* Factory has built an executor of the definition since its last clear(),
\* under any filters, and returns undefined when it has not.
SkipCacheOutcome ==
  [][(ret' # ret /\ AskedSkipCache')
     => ret'.out = IF ret'.def \in DOMAIN loaders[ret'.fac] THEN CacheDisabledError
                   ELSE [t |-> "undefined"]]_vars

\* getCache threw on a definition with skipCache.
SkipCacheThrew == AskedSkipCache /\ ret.out = CacheDisabledError

\* getCache returned the empty Map of an executor that caches.
EmptyCache ==
  /\ ret.op = "getCache"
  /\ ret.out.t = "map"
  /\ IsMany(Def(ret.def))
  /\ cacheMap(Lib, ret.out.ex) = <<>>

\* Factory f holds an executor of the definition for the filters, and which.
Holds(f, name, filters) ==
  /\ name \in DOMAIN loaders[f]
  /\ IsMany(Def(name)) => filterstring(filters) \in DOMAIN loaders[f][name]
Held(f, name, filters) ==
  IF IsMany(Def(name)) THEN loaders[f][name][filterstring(filters)] ELSE loaders[f][name]

\* The load() calls made on executor e, and the stringified keys they asked.
CallsOn(e) == {i \in DOMAIN calls : calls[i].ex = e}
Asked(e) == {KeyString(i) : i \in CallsOn(e)}

\* The entry of executor e under s was primed with a row of that id.
Primed(e, s) ==
  LET p == prom[cacheMap(Lib, e)[s]]
      def == Def(execs[e].def)
  IN /\ PromBatches(cacheMap(Lib, e)[s]) = {}
     /\ p.st = "resolved"
     /\ p.val.t = "row"
     /\ cacheKeyFn(def, access(def.extractId, p.val.v)) = s

\* The definitions Factory.getCache is declared for, with caching enabled.
Cacheable(name) ==
  /\ Def(name).useCache
  /\ Def(name).kind \in {"PrimaryKey", "BestMatch", "OneToMany", "ManyToMany", "ManyJoined"}

\* C21: when every load made on the executor a Factory holds for a caching
\* definition and filters has resolved, getCache(loader, filters) returns the
\* cache map of that executor, and the map holds an entry under the
\* stringified form of every key loaded (empty results included) and, beyond
\* those, only entries primed under the id of their row; so an executor that
\* was only primed holds exactly its primed ids.
C21_CacheEntries ==
  \A f \in scn.facs, name \in Loadable, filters \in Filters :
    (/\ Cacheable(name)
     /\ Holds(f, name, filters)
     /\ \A i \in CallsOn(Held(f, name, filters)) : prom[calls[i].pid].st = "resolved")
    => LET e == Held(f, name, filters)
       IN /\ getCache(Lib, f, name, filters) = [t |-> "map", ex |-> e]
          /\ Asked(e) \subseteq DOMAIN cacheMap(Lib, e)
          /\ \A s \in (DOMAIN cacheMap(Lib, e)) \ Asked(e) : Primed(e, s)

\* C21 happens: getCache returned the map of an executor whose two loads of
\* two different keys have resolved, one of them with an empty result, and
\* the map holds the two entries.
C21_Witness ==
  /\ ret.op = "getCache"
  /\ ret.out.t = "map"
  /\ ret.out = getCache(Lib, ret.fac, ret.def, ret.filters)
  /\ Cardinality(CallsOn(ret.out.ex)) = 2
  /\ Cardinality(Asked(ret.out.ex)) = 2
  /\ DOMAIN cacheMap(Lib, ret.out.ex) = Asked(ret.out.ex)
  /\ \A i \in CallsOn(ret.out.ex) : prom[calls[i].pid].st = "resolved"
  /\ \E i \in CallsOn(ret.out.ex) : prom[calls[i].pid].val \in {UndefVal, ArrVal(<<>>)}

\* getCache returned the map of a PrimaryKeyLoader executor that was never
\* loaded through and holds a primed entry.
OnlyPrimed ==
  /\ ret.op = "getCache"
  /\ ret.out.t = "map"
  /\ ret.out = getCache(Lib, ret.fac, ret.def, ret.filters)
  /\ CallsOn(ret.out.ex) = {}
  /\ DOMAIN cacheMap(Lib, ret.out.ex) # {}

\* Two loads of keys with one stringified form share one entry.
SharedEntry ==
  \E i, j \in DOMAIN calls :
    /\ calls[i].key # calls[j].key
    /\ SameKey(i, j)
    /\ Cardinality(DOMAIN cacheMap(Lib, calls[i].ex)) = 1
    /\ getCache(Lib, calls[i].fac, calls[i].def, calls[i].filters).t = "map"

\* ------------------------------------------------------- key identity
\* Keys k1 and k2 hold the same properties with the same values, in any order.
SameProps(k1, k2) == {k1[i] : i \in DOMAIN k1} = {k2[i] : i \in DOMAIN k2}

\* Keys k1 and k2 are one key to the definition: structurally equal under the
\* default stringify, equal in the property the custom cacheKeyFn reads.
SameIdentity(def, k1, k2) ==
  IF def.cacheKeyFn = "aOnly"
  THEN {p \in {k1[i] : i \in DOMAIN k1} : p[1] = "a"}
         = {p \in {k2[i] : i \in DOMAIN k2} : p[1] = "a"}
  ELSE SameProps(k1, k2)

\* The fetched rows of the last batch that the definition matches to key k by
\* cache-key string: by extracted id, by listed child id, or by extracted or
\* joined key among the rows that survive keysFromFilter.
MatchedByString(def, k, items, filters) ==
  CASE def.kind = "PrimaryKey" -> RowsFor(def, k, items)
    [] def.kind = "ParentDocument" -> ParentsOf(def, k, items)
    [] OTHER -> {i \in DOMAIN items :
                   Assoc(def, items[i], k) /\ Survives(def, items[i], filters)}

\* The rows a settled value hands to its caller.
RowsOf(v) ==
  CASE v.t = "undefined" -> {}
    [] v.t = "row" -> {v.v}
    [] OTHER -> {v.v[i] : i \in DOMAIN v.v}

\* The loads of one caching executor for keys that are one key share a promise.
SharesEntry ==
  \A i, j \in DOMAIN calls :
    (/\ i < j
     /\ calls[i].ex = calls[j].ex
     /\ DefOfCall(i).useCache
     /\ prom[calls[i].pid].st # "rejected"
     /\ SameIdentity(DefOfCall(i), calls[i].key, calls[j].key))
      => calls[j].pid = calls[i].pid

\* Loads for keys that are not one key never share a promise, and a load is
\* answered by the rows matched to its key by cache-key string: by nothing
\* else, and by something when there is such a row.
MatchedByKey ==
  /\ \A i, j \in DOMAIN calls :
       (calls[i].ex = calls[j].ex
        /\ ~SameIdentity(DefOfCall(i), calls[i].key, calls[j].key))
         => calls[j].pid # calls[i].pid
  /\ (last.b # 0 /\ LastDef.kind # "BestMatch" /\ LastDef.groupBy # "matchKey") =>
       \A j \in DOMAIN LastBatch.keys :
         LET at == MatchedByString(LastDef, LastBatch.keys[j], last.items,
                                   LastExec.filters)
             got == Settled(last.b, j)
         IN /\ got.st = "resolved"
            /\ RowsOf(got.val)
                 \subseteq {ValuesOf(LastDef, last.items)[i] : i \in at}
            /\ at # {} => RowsOf(got.val) # {}

CustomKeyShared ==
  \E i, j \in DOMAIN calls :
    /\ i < j
    /\ calls[i].ex = calls[j].ex
    /\ DefOfCall(i).cacheKeyFn = "aOnly"
    /\ ~SameProps(calls[i].key, calls[j].key)
    /\ calls[i].pid = calls[j].pid
    /\ prom[calls[i].pid].st = "resolved"
    /\ RowsOf(prom[calls[i].pid].val) # {}

\* ------------------------------------------- extractKey(s) against matchKey
\* The definition with the same fetch and options that groups by the
\* equivalent matchKey: matches("fk", k, row) holds iff the row's fk is k,
\* matches("fks", k, row) iff k is among the row's fks.
MatchKeyTwin(def) ==
  IF def.kind = "OneToMany"
  THEN OneToManyLoader([def.config EXCEPT !.matchKey = def.config.extractKey,
                                          !.extractKey = ""])
  ELSE ManyToManyLoader([def.config EXCEPT !.matchKey = def.config.extractKeys,
                                           !.extractKeys = ""])

\* The last batch went through a loader that groups by extractKey(s), with or
\* without keysFromFilter.
TwinCase(kinds, narrowing) ==
  /\ last.b # 0
  /\ LastDef.kind \in kinds
  /\ LastDef.groupBy \in {"extractKey", "extractKeys"}
  /\ (LastDef.config.keysFromFilter # "") \in narrowing

\* Every load of the last batch resolved to the array that the matchKey twin
\* returns for the same keys, fetched rows and filter.
TwinAgrees ==
  \A j \in DOMAIN LastBatch.keys :
    Settled(last.b, j) =
      Resolved(ManyResults(MatchKeyTwin(LastDef), LastBatch.keys, last.items,
                           LastExec.filters)[j])

\* C23 as stated: for any fetched rows, requested keys and filter, every load
\* of a OneToManyLoader grouping by extractKey, or of a ManyToManyLoader
\* grouping by extractKeys, resolves to the same array (same rows, same order)
\* as with the same loader grouping by the equivalent matchKey.
C23_Original ==
  TwinCase({"OneToMany", "ManyToMany"}, {FALSE}) => TwinAgrees

\* The part of C23 that holds: a OneToManyLoader without keysFromFilter.
OneToManyTwinAgrees ==
  TwinCase({"OneToMany"}, {FALSE}) => TwinAgrees

\* The same comparison when the definition also narrows by keysFromFilter.
NarrowedTwinAgrees ==
  TwinCase({"OneToMany", "ManyToMany"}, {TRUE}) => TwinAgrees

\* A row that lists one key twice among its extracted keys was fetched alone
\* for that key: extractKeys answers with it twice, matchKey once.
ListedTwice ==
  /\ TwinCase({"ManyToMany"}, {FALSE})
  /\ Len(last.items) = 1
  /\ Len(LastBatch.keys) = 1
  /\ Settled(last.b, 1) = Resolved(ArrVal(<<last.items[1], last.items[1]>>))
  /\ ManyResults(MatchKeyTwin(LastDef), LastBatch.keys, last.items, LastExec.filters)[1]
       = ArrVal(<<last.items[1]>>)

\* ------------------------------------------------------ the fetch context
\* The context that the application constructed Factory f with.
Given(f) == scn.given[f]

\* C24: every fetch call made through a Factory receives as context the
\* value given to that Factory's constructor, the empty object when none was
\* given, and no step of get, load, loadMany, a batch, priming or clear
\* changes the context of any Factory.
C24_FetchContext ==
  /\ [](\A b \in DOMAIN batches :
          batches[b].call.made
            => batches[b].call.context =
                 IF Given(execs[batches[b].ex].fac) = UndefVal THEN EmptyObject
                 ELSE Given(execs[batches[b].ex].fac))
  /\ [][context' = context]_vars

\* A Factory constructed without a context was cleared, and a fetch call made
\* through it afterwards received the empty object.
C24_Witness ==
  \E b \in DOMAIN batches :
    /\ batches[b].call.made
    /\ Given(execs[batches[b].ex].fac) = UndefVal
    /\ batches[b].call.context = EmptyObject
    /\ clears[execs[batches[b].ex].fac] > 0
    /\ execs[batches[b].ex].def \in DOMAIN loaders[execs[batches[b].ex].fac]

\* A fetch call received the object its Factory was constructed with.
GivenContextPassed ==
  \E b \in DOMAIN batches :
    /\ batches[b].call.made
    /\ batches[b].call.context = Session(execs[batches[b].ex].fac)
    /\ batches[b].st = "done"

\* ----------------------------------------------------------- keysFromFilter
\* Row r is matched to key k by the definition's strategy.
MatchedTo(def, r, k) ==
  IF def.groupBy = "matchKey" THEN matches(def.config.matchKey, k, r) ELSE Assoc(def, r, k)

\* A key of row r is among ks, compared by cache-key string.
AmongKeys(def, r, ks) == \E i \in DOMAIN ks : MatchedTo(def, r, ks[i])

\* The last batch went through a *-to-many definition with keysFromFilter.
Narrowed == last.b # 0 /\ IsMany(LastDef) /\ LastDef.config.keysFromFilter # ""
FilterKeysOfLast == filterKeys(LastDef.config.keysFromFilter, LastExec.filters)

EmptyFilterKeepsAll ==
  /\ Narrowed
  /\ FilterKeysOfLast = <<>>
  /\ \E j \in DOMAIN LastBatch.keys : RowsOf(Settled(last.b, j).val) # {}

\* A row that lists a key of the filter is returned to the load of another
\* key that it lists.
KeptUnderOtherKey ==
  /\ Narrowed
  /\ LastDef.groupBy = "extractKeys"
  /\ \E j \in DOMAIN LastBatch.keys :
       /\ ~AmongKeys(LastDef, [fks |-> <<LastBatch.keys[j]>>], FilterKeysOfLast)
       /\ RowsOf(Settled(last.b, j).val) # {}

\* ------------------------------------------------------- maximum batch size
\* The maximum batch size the claim gives a definition: the configured one,
\* else 50 with matchKey, 100 for BestMatch and 1000 for every other loader.
Cap(def) ==
  IF def.config.maxBatchSize # 0 THEN def.config.maxBatchSize
  ELSE IF def.kind = "BestMatch" THEN 100
  ELSE IF def.kind \in {"OneToMany", "ManyToMany"} /\ def.config.matchKey # "" THEN 50
  ELSE 1000

\* The loads of loadMany m that missed the cache.
MissesOf(m) ==
  {i \in many[m].first..(many[m].first + many[m].n - 1) : calls[i].hit = 0}

\* C26: every definition has the maximum batch size that was configured, else
\* the default of its kind (1000; 50 with matchKey; 100 for BestMatch); no
\* batch and no fetch call holds more keys than that; the end of a turn
\* dispatches every batch that has keys, so the loads beyond the cap get
\* fetch calls of their own; and every load of a batch resolves to the result
\* of its own key, whatever other keys shared the batch.
C26_BatchCap ==
  /\ [](/\ \A name \in LoaderNames : Def(name).maxBatchSize = Cap(Def(name))
        /\ \A b \in DOMAIN batches :
             LET def == Def(execs[batches[b].ex].def)
             IN /\ Len(batches[b].keys) <= Cap(def)
                /\ batches[b].call.made => Len(batches[b].call.keys) <= Cap(def)
        /\ last.b # 0 =>
             \A j \in DOMAIN LastBatch.keys :
               Settled(last.b, j) =
                 Resolved(BatchResults(LastDef, <<LastBatch.keys[j]>>, last.items,
                                       LastExec.filters)[1]))
  /\ [][\A b \in DOMAIN batches :
          (IsEndTurn /\ batches[b].st = "open" /\ batches[b].keys # <<>>)
            => batches'[b].call.made]_vars

\* One loadMany asked a loader whose maximum batch size is one for two keys:
\* each key got a fetch call of its own and the two loads resolved to
\* different results.
C26_Witness ==
  \E m \in DOMAIN many :
    \E i, j \in MissesOf(m) :
      /\ i < j
      /\ Cap(DefOfCall(i)) = 1
      /\ PromBatches(calls[i].pid) \cap PromBatches(calls[j].pid) = {}
      /\ \A b \in PromBatches(calls[i].pid) \cup PromBatches(calls[j].pid) :
           batches[b].call.made /\ Len(batches[b].call.keys) = 1
      /\ prom[calls[i].pid].st = "resolved"
      /\ prom[calls[j].pid].st = "resolved"
      /\ prom[calls[i].pid].val # prom[calls[j].pid].val

\* ------------------------------------------------ priming and the batch
\* The fetch of batch b resolved, and the batch went through a definition with
\* idLoaders whose own grouping does not throw.
FetchedAndPrimed(b) ==
  /\ batches[b].st \in {"done", "threw"}
  /\ batches[b].call.made
  /\ Def(execs[batches[b].ex].def).idLoaders # <<>>
  /\ Def(execs[batches[b].ex].def).kind # "PrimaryKey"

\* C27 as stated: whenever the fetch of a batch succeeds, every load of that
\* batch resolves, whatever happens while the declared idLoaders are primed.
C27_Original ==
  \A b \in DOMAIN batches :
    FetchedAndPrimed(b) => StatesOf(b) \subseteq {"resolved"}

\* What holds: the loads of a batch whose fetch succeeded resolve when no
\* extractId of an idLoader throws on a fetched row; they all reject, and
\* their keys leave the cache, when one does.
PrimingOutcome ==
  \A b \in DOMAIN batches :
    FetchedAndPrimed(b) =>
      IF batches[b].st = "done" THEN StatesOf(b) \subseteq {"resolved"}
      ELSE /\ StatesOf(b) \subseteq {"rejected"}
           /\ \A j \in DOMAIN batches[b].keys :
                LET s == cacheKeyFn(Def(execs[batches[b].ex].def), batches[b].keys[j])
                    m == cacheMap(Lib, batches[b].ex)
                IN s \in DOMAIN m => m[s] # batches[b].pids[j]

\* The fetch of a batch returned a row on which the extractId of its idLoader
\* throws: the loads of the batch were rejected.
PrimingFailedLoad ==
  \E b \in DOMAIN batches :
    /\ FetchedAndPrimed(b)
    /\ batches[b].st = "threw"
    /\ batches[b].pids # <<>>
    /\ StatesOf(b) = {"rejected"}

\* The rows of a batch were primed into an idLoader and into none with the
\* cache disabled; the loads of the batch resolved.
PrimedAndResolved ==
  \E b \in DOMAIN batches :
    /\ FetchedAndPrimed(b)
    /\ batches[b].st = "done"
    /\ batches[b].pids # <<>>
    /\ \E e \in DOMAIN execs :
         /\ execs[e].fac = execs[batches[b].ex].fac
         /\ Def(execs[e].def).kind = "PrimaryKey"
         /\ \E s \in DOMAIN cacheMap(Lib, e) : Primed(e, s)

\* ------------------------------------------------------------ two Factories
\* What Factory g owns: its loaders map, and the executors built for it with
\* their caches.
FactoryState(g) ==
  [loaders |-> loaders[g],
   execs |-> [e \in {x \in DOMAIN execs : execs[x].fac = g} |-> execs[e]]]

\* The executors that the loaders map of Factory f leads to.
ExecsIn(f) ==
  UNION {IF IsMany(Def(name))
         THEN {loaders[f][name][slot] : slot \in DOMAIN loaders[f][name]}
         ELSE {loaders[f][name]} : name \in DOMAIN loaders[f]}

\* The promises held by the caches of the executors built for Factory f.
EntriesOf(f) ==
  UNION {{cacheMap(Lib, e)[s] : s \in DOMAIN cacheMap(Lib, e)} :
           e \in {x \in DOMAIN execs : execs[x].fac = f}}

\* The step is an operation on Factory f: a get, a load or loadMany, a clear,
\* or the completion of a batch of one of its executors (which primes).
ActsOn(f) ==
  \/ loaders'[f] # loaders[f]
  \/ clears'[f] # clears[f]
  \/ Len(calls') > Len(calls) /\ calls'[Len(calls')].fac = f
  \/ \E b \in DOMAIN batches :
       /\ batches[b].st = "fetching"
       /\ batches'[b].st # "fetching"
       /\ execs[batches[b].ex].fac = f

\* Factories share no executor and no cache entry, and a load is answered by a
\* fetch call of its own Factory: by a batch of an executor of its Factory,
\* that received its key.
NothingShared ==
  /\ \A f, g \in scn.facs :
       f # g => /\ ExecsIn(f) \cap ExecsIn(g) = {}
                /\ EntriesOf(f) \cap EntriesOf(g) = {}
                /\ \A e \in ExecsIn(f) : execs[e].fac = f
  /\ \A i \in DOMAIN calls :
       /\ execs[calls[i].ex].fac = calls[i].fac
       /\ \A b \in PromBatches(calls[i].pid) :
            /\ execs[batches[b].ex].fac = calls[i].fac
            /\ batches[b].st # "open" =>
                 /\ batches[b].call.made
                 /\ KeyString(i) \in StringsOf(DefOfCall(i), batches[b].call.keys)
       /\ \A j \in DOMAIN calls :
            calls[i].fac # calls[j].fac
              => /\ calls[i].ex # calls[j].ex
                 /\ calls[i].pid # calls[j].pid
                 /\ PromBatches(calls[i].pid) \cap PromBatches(calls[j].pid) = {}

\* C28: two Factories that use the same definitions (none with a cacheMap of
\* its own) share no executor and no cache entry; a get, load, loadMany,
\* batch with priming or clear() on one Factory leaves the loaders map, the
\* executors and the caches of the other as they were; and a key loaded
\* through both is fetched once through each.
C28_FactoryIsolation ==
  /\ []NothingShared
  /\ [][\A f, g \in scn.facs :
          (ActsOn(f) /\ g # f) => FactoryState(g)' = FactoryState(g)]_vars

\* The same key was loaded through the same definition in two Factories: each
\* load had a fetch call of its own; then the first Factory was cleared and
\* the second still holds its executor and its cache entry.
C28_Witness ==
  \E i, j \in DOMAIN calls :
    /\ calls[i].fac = 1
    /\ calls[j].fac = 2
    /\ calls[i].def = calls[j].def
    /\ KeyString(i) = KeyString(j)
    /\ clears[1] = 1
    /\ loaders[1] = <<>>
    /\ \A c \in {i, j} :
         /\ prom[calls[c].pid].st = "resolved"
         /\ \E b \in PromBatches(calls[c].pid) : batches[b].st = "done"
    /\ calls[j].ex \in ExecsIn(2)
    /\ KeyString(j) \in DOMAIN cacheMap(Lib, calls[j].ex)

\* A batch of one Factory primed the idLoader of that Factory while the other
\* Factory holds an executor of the same idLoader without the entry.
PrimedInOneFactory ==
  \E e1, e2 \in DOMAIN execs :
    /\ execs[e1].fac # execs[e2].fac
    /\ execs[e1].def = execs[e2].def
    /\ e1 \in ExecsIn(execs[e1].fac)
    /\ e2 \in ExecsIn(execs[e2].fac)
    /\ \E s \in DOMAIN cacheMap(Lib, e1) :
         Primed(e1, s) /\ s \notin DOMAIN cacheMap(Lib, e2)

\* ------------------------------------------------------ BestMatch ties
\* The positions of the fetched rows with the highest score above zero for k.
TopScored(k) ==
  {i \in DOMAIN last.items :
     /\ ScoreOf(k, i) > 0
     /\ \A h \in DOMAIN last.items : ScoreOf(k, h) <= ScoreOf(k, i)}

Min(S) == CHOOSE x \in S : \A y \in S : x <= y

\* C29: when fetched rows score above zero for a key, its load resolves to
\* the first row, in fetch order, among those with the highest score; and the
\* row a load resolves to was replaced by no later row of the same or a lower
\* score, and replaced every earlier row that it found: they all score lower
\* (rows that score zero are never considered).
C29_FirstOfTies ==
  (last.b # 0 /\ LastDef.kind = "BestMatch") =>
    \A j \in DOMAIN LastBatch.keys :
      LET k == LastBatch.keys[j]
          got == Settled(last.b, j)
      IN /\ TopScored(k) # {} => got = Resolved(RowVal(last.items[Min(TopScored(k))]))
         /\ (got.st = "resolved" /\ got.val # UndefVal) =>
              \E i \in DOMAIN last.items :
                /\ got.val = RowVal(last.items[i])
                /\ ScoreOf(k, i) # 0
                /\ \A h \in DOMAIN last.items :
                     /\ h < i => (ScoreOf(k, h) = 0 \/ ScoreOf(k, h) < ScoreOf(k, i))
                     /\ h > i => (ScoreOf(k, h) = 0 \/ ScoreOf(k, h) <= ScoreOf(k, i))

\* Two different fetched rows have the same highest score for a key: its
\* load resolved to the one fetched first.
C29_Witness ==
  /\ last.b # 0
  /\ LastDef.kind = "BestMatch"
  /\ Len(last.items) = 2
  /\ last.items[1] # last.items[2]
  /\ \E j \in DOMAIN LastBatch.keys :
       /\ TopScored(LastBatch.keys[j]) = {1, 2}
       /\ Settled(last.b, j) = Resolved(RowVal(last.items[1]))

\* ------------------------------------------- one key twice in a batch
\* The last batch went through a *-to-many definition that does not cache and
\* held one stringified key at two positions.
AskedTwice ==
  /\ last.b # 0
  /\ IsMany(LastDef)
  /\ ~LastDef.useCache
  /\ ~EachOnce(LastDef, LastBatch.keys)

\* The fetch call of the last batch received every requested stringified key
\* once, every load resolved to the fetched rows matched to its key, each as
\* often as it was fetched, and loads of one stringified key resolved alike.
ServedOnce ==
  /\ EachOnce(LastDef, LastBatch.call.keys)
  /\ StringsOf(LastDef, LastBatch.call.keys) = StringsOf(LastDef, LastBatch.keys)
  /\ \A j \in DOMAIN LastBatch.keys :
       LET keep(r) == MatchedTo(LastDef, r, LastBatch.keys[j])
       IN Settled(last.b, j) =
            Resolved(ArrVal(ValuesOf(LastDef, SelectSeq(last.items, keep))))
  /\ \A i, j \in DOMAIN LastBatch.keys :
       cacheKeyFn(LastDef, LastBatch.keys[i]) = cacheKeyFn(LastDef, LastBatch.keys[j])
         => Settled(last.b, i) = Settled(last.b, j)

\* C30 as stated: when one stringified key is requested more than once in a
\* batch of a *-to-many loader, fetch receives the key once, every fetched row
\* is attributed once to each distinct key it belongs to (also under
\* matchKey), and the duplicate callers resolve to the same bucket contents.
C30_Original == AskedTwice => ServedOnce

\* The same statement for every *-to-many loader but those that group by
\* extractKeys.
DuplicatesServedOnce == (AskedTwice /\ LastDef.groupBy # "extractKeys") => ServedOnce

\* A key was asked for in two property orders in one batch of a matchKey
\* loader: fetch got one key and both loads got the one fetched row once.
DuplicateUnderMatchKey ==
  /\ AskedTwice
  /\ LastDef.groupBy = "matchKey"
  /\ Len(LastBatch.keys) = 2
  /\ LastBatch.keys[1] # LastBatch.keys[2]
  /\ Len(LastBatch.call.keys) = 1
  /\ Len(last.items) = 1
  /\ \A j \in {1, 2} : Settled(last.b, j) = Resolved(ArrVal(last.items))

\* A key was asked for twice and the one fetched row lists it twice among its
\* extractKeys: both loads got the row twice.
DuplicateListedTwice ==
  /\ AskedTwice
  /\ LastDef.groupBy = "extractKeys"
  /\ Len(last.items) = 1
  /\ \A j \in DOMAIN LastBatch.keys :
       Settled(last.b, j) = Resolved(ArrVal(<<last.items[1], last.items[1]>>))

\* ---------------------------------------- ManyToMany with keysFromFilter
\* The last batch went through a ManyToManyLoader that groups by extractKeys
\* and narrows by keysFromFilter, which returned at least one key.
NarrowedManyToMany ==
  /\ Narrowed
  /\ LastDef.kind = "ManyToMany"
  /\ LastDef.groupBy = "extractKeys"
  /\ FilterKeysOfLast # <<>>

\* Key k is among ks, and key k is among the extractKeys of row r, compared
\* by cache-key string.
KeyAmong(def, k, ks) == \E i \in DOMAIN ks : cacheKeyFn(def, ks[i]) = cacheKeyFn(def, k)
Lists(def, r, k) == KeyAmong(def, k, access(def.config.extractKeys, r))

\* Row r lists key k and lists a key that keysFromFilter returned.
ListsAndSurvives(def, r, k, ks) ==
  /\ Lists(def, r, k)
  /\ \E i \in DOMAIN ks : Lists(def, r, ks[i])

\* C31 as stated: with keysFromFilter returning a non-empty list, every load
\* of a ManyToManyLoader batch resolves to exactly the fetched rows, in fetch
\* order and each as often as it was fetched, that list its key among their
\* extractKeys and list at least one key of keysFromFilter(filter).
C31_Original ==
  NarrowedManyToMany =>
    \A j \in DOMAIN LastBatch.keys :
      LET keep(r) == ListsAndSurvives(LastDef, r, LastBatch.keys[j], FilterKeysOfLast)
      IN Settled(last.b, j) = Resolved(ArrVal(SelectSeq(last.items, keep)))

\* The same statement about which rows a load holds, however often.
ListedRowsOnly ==
  NarrowedManyToMany =>
    \A j \in DOMAIN LastBatch.keys :
      /\ Settled(last.b, j).st = "resolved"
      /\ RowsOf(Settled(last.b, j).val) =
           {last.items[i] : i \in {h \in DOMAIN last.items :
              ListsAndSurvives(LastDef, last.items[h], LastBatch.keys[j], FilterKeysOfLast)}}

\* A surviving row was returned to the load of a key that it lists and that
\* keysFromFilter did not return.
SurvivorUnderOtherKey ==
  /\ NarrowedManyToMany
  /\ \E j \in DOMAIN LastBatch.keys :
       /\ ~KeyAmong(LastDef, LastBatch.keys[j], FilterKeysOfLast)
       /\ RowsOf(Settled(last.b, j).val) # {}

\* A surviving row lists the key of a load twice: the load got it twice.
SurvivorListedTwice ==
  /\ NarrowedManyToMany
  /\ Len(last.items) = 1
  /\ \E j \in DOMAIN LastBatch.keys :
       Settled(last.b, j) = Resolved(ArrVal(<<last.items[1], last.items[1]>>))

\* --------------------------------------------- filtering before priming
\* The entries of the cache of idLoader T in Factory f, before and after the
\* step.
EntriesBefore(f, T) ==
  IF T \in DOMAIN loaders[f] THEN DOMAIN cacheMap(Lib, loaders[f][T]) ELSE {}
EntriesAfter(f, T) ==
  IF T \in DOMAIN loaders'[f] THEN DOMAIN cacheMap(Lib, loaders[f][T])' ELSE {}

\* The fetch of batch b rejects in the step.
Fails(b) == batches[b].st = "fetching" /\ batches'[b].st = "failed"

\* The fetched rows of the step that survive keysFromFilter, as they are
\* handed to callers.
Survivors(def, filters) ==
  LET keep(r) == Survives(def, r, filters)
      rows == ValuesOf(def, SelectSeq(last'.items, keep))
  IN {rows[i] : i \in DOMAIN rows}

\* C32: when a *-to-many batch completes, the entries that appear in the
\* cache of each of its caching idLoaders are exactly those of the ids of the
\* fetched rows that survive keysFromFilter, each resolved with a surviving
\* row of that id, so a discarded row enters no cache; the cache of an
\* idLoader that does not cache stays empty; and when the fetch rejects no
\* entry appears in any cache.
C32_FilterThenPrime ==
  [][\A b \in DOMAIN batches :
       LET ex == execs[batches[b].ex]
           def == Def(ex.def)
       IN /\ (Completes(b) /\ IsMany(def)) =>
               \A t \in DOMAIN def.idLoaders :
                 LET T == def.idLoaders[t]
                     new == EntriesAfter(ex.fac, T) \ EntriesBefore(ex.fac, T)
                 IN /\ new = IF Def(T).useCache
                             THEN {PrimedKey(T, r) : r \in Survivors(def, ex.filters)}
                                    \ EntriesBefore(ex.fac, T)
                             ELSE {}
                    /\ \A s \in new :
                         \E r \in Survivors(def, ex.filters) :
                           /\ PrimedKey(T, r) = s
                           /\ prom'[cacheMap(Lib, loaders[ex.fac][T])'[s]] = Resolved(RowVal(r))
          /\ Fails(b) =>
               /\ loaders' = loaders
               /\ \A e \in DOMAIN execs :
                    DOMAIN cacheMap(Lib, e)' \subseteq DOMAIN cacheMap(Lib, e)]_vars

\* A fetch returned a row that survives keysFromFilter and a row that does
\* not: the idLoader's cache holds the first and nothing under the id of the
\* second.
C32_Witness ==
  /\ last.b # 0
  /\ IsMany(LastDef)
  /\ LastDef.config.keysFromFilter # ""
  /\ LastDef.idLoaders # <<>>
  /\ \E i, j \in DOMAIN last.items :
       LET T == LastDef.idLoaders[1]
           ri == ValuesOf(LastDef, last.items)[i]
           rj == ValuesOf(LastDef, last.items)[j]
       IN /\ Survives(LastDef, last.items[i], LastExec.filters)
          /\ ~Survives(LastDef, last.items[j], LastExec.filters)
          /\ T \in DOMAIN loaders[LastExec.fac]
          /\ PrimedKey(T, ri) \in DOMAIN cacheMap(Lib, loaders[LastExec.fac][T])
          /\ PrimedKey(T, rj) \notin DOMAIN cacheMap(Lib, loaders[LastExec.fac][T])

\* The fetch of a *-to-many batch with idLoaders rejected and the Factory
\* holds no executor of an idLoader.
RejectedPrimesNothing ==
  \E b \in DOMAIN batches :
    /\ batches[b].st = "failed"
    /\ Def(execs[batches[b].ex].def).idLoaders # <<>>
    /\ \A t \in DOMAIN Def(execs[batches[b].ex].def).idLoaders :
         Def(execs[batches[b].ex].def).idLoaders[t] \notin DOMAIN loaders[execs[batches[b].ex].fac]

\* ------------------------------------------- what changes a cache map
\* The cache map of executor e of the next state, as it was before the step:
\* empty for an executor that the step builds, unless the application
\* supplied the Map.
CacheBefore(e) ==
  IF e \in DOMAIN execs THEN cacheMap(Lib, e)
  ELSE IF OwnMap(Def(execs'[e].def)) THEN maps[execs'[e].def] ELSE <<>>
CacheAfter(e) == cacheMap(Lib, e)'

\* Executors e and x use one Map: they are one executor, or executors of a
\* definition whose Map the application supplied.
SameMap(e, x) ==
  e = x \/ (execs'[e].def = execs'[x].def /\ OwnMap(Def(execs'[e].def)))

\* The step settles the fetch of a batch of an executor that uses the Map of
\* e: with a result, or with a failure.
OwnCompletion(e) ==
  \E b \in DOMAIN batches :
    /\ SameMap(e, batches[b].ex)
    /\ batches[b].st = "fetching"
    /\ batches'[b].st \in {"done", "failed", "threw"}
OwnFailure(e) ==
  \E b \in DOMAIN batches :
    /\ SameMap(e, batches[b].ex)
    /\ batches[b].st = "fetching"
    /\ batches'[b].st \in {"failed", "threw"}

\* The step settles the fetch of a batch, in the Factory of e, of a
\* definition that declares the definition of e as idLoader.
PrimedInStep(e) ==
  \E b \in DOMAIN batches :
    /\ batches[b].st = "fetching"
    /\ batches'[b].st \in {"done", "threw"}
    /\ execs[batches[b].ex].fac = execs'[e].fac
    /\ \E t \in DOMAIN Def(execs[batches[b].ex].def).idLoaders :
         Def(execs[batches[b].ex].def).idLoaders[t] = execs'[e].def

\* The cache-key strings of the loads that the step issues on an executor
\* that uses the Map of e and that miss the cache.
MissedInStep(e) ==
  {cacheKeyFn(Def(calls'[i].def), calls'[i].key) :
     i \in {c \in (DOMAIN calls') \ (DOMAIN calls) :
              SameMap(e, calls'[c].ex) /\ calls'[c].hit = 0}}

\* C33 as stated: the cache map of an executor changes only in a step that
\* completes a batch of that executor or that primes the executor.
C33_Original ==
  [][\A e \in DOMAIN execs' :
       CacheAfter(e) # CacheBefore(e) => (OwnCompletion(e) \/ PrimedInStep(e))]_vars

\* C33 (amended): the cache map of an executor changes only in three kinds of
\* step: a load or loadMany on the executor that misses the cache, which adds
\* the entries of the keys it asks for and touches no other; a failure of a
\* batch of the executor, which only removes entries; and the priming of the
\* executor by a batch of a definition that declares it as idLoader, which
\* only adds entries.  A get, a clear, the turn's end, a batch of the
\* executor that succeeds, and a batch that does not prime it change nothing.
C33_CacheChanges ==
  [][\A e \in DOMAIN execs' :
       LET before == CacheBefore(e)
           after == CacheAfter(e)
           kept == (DOMAIN before) \cap (DOMAIN after)
       IN after # before =>
            /\ \A s \in kept : after[s] = before[s]
            /\ \/ /\ MissedInStep(e) # {}
                  /\ (DOMAIN after) \ (DOMAIN before) = MissedInStep(e)
                  /\ DOMAIN before \subseteq DOMAIN after
               \/ /\ OwnFailure(e)
                  /\ DOMAIN after \subseteq DOMAIN before
                  /\ (DOMAIN before) \ (DOMAIN after) \subseteq
                       UNION {StringsOf(Def(execs[batches[b].ex].def), batches[b].keys) :
                                b \in {c \in DOMAIN batches :
                                         batches[c].st = "fetching" /\ batches'[c].st # "fetching"}}
               \/ /\ PrimedInStep(e)
                  /\ DOMAIN before \subseteq DOMAIN after]_vars

\* A load was issued and, before its turn ended, the cache of its executor
\* held the entry of its key, pending.
C33_Witness ==
  \E i \in DOMAIN calls :
    /\ calls[i].hit = 0
    /\ DefOfCall(i).useCache
    /\ \E b \in PromBatches(calls[i].pid) : batches[b].st = "open"
    /\ KeyString(i) \in DOMAIN cacheMap(Lib, calls[i].ex)
    /\ cacheMap(Lib, calls[i].ex)[KeyString(i)] = calls[i].pid
    /\ prom[calls[i].pid].st = "pending"

\* A batch of an executor succeeded and the cache entries of its loads are
\* the promises that the loads put there.
CompletionKeepsEntries ==
  \E i \in DOMAIN calls :
    /\ calls[i].hit = 0
    /\ DefOfCall(i).useCache
    /\ \E b \in PromBatches(calls[i].pid) : batches[b].st = "done"
    /\ cacheMap(Lib, calls[i].ex)[KeyString(i)] = calls[i].pid

\* ------------------------------------------------ rows with a falsy id
\* A table whose ids start at 0: rows with id 0 with and without an _id, a
\* row with both fields, and a row with an _id only.
Zero1 == Row(Prim(0), KeyA, KeyA, <<>>, "z1")
Zero2 == Row(Prim(0), Undef, KeyA, <<>>, "z2")
Zero3 == Row(KeyA, KeyB, KeyA, <<>>, "z3")
Zero4 == Row(Undef, KeyB, KeyA, <<>>, "z4")
ZeroRows == {Zero1, Zero2, Zero3, Zero4}

\* The fetch of a batch returns rows of that table.
DoFetchResolveZero ==
  \E b \in DOMAIN batches :
    \E items \in SeqsUpTo(ZeroRows, MaxItems) : FetchResolve(b, items)

\* A PrimaryKeyLoader without extractId over that table, asked for 0 too.
DefaultIdScenarios == {Scenario("byId", {Undef}, {Prim(0), KeyA, KeyB})}

NextDefaultId == DoLoad \/ EndTurn \/ DoFetchResolveZero

SpecDefaultId == InitWith(DefaultIdScenarios) /\ [][NextDefaultId]_vars

\* The positions of the fetched rows that the default keys under k: by their
\* id field when they have one, by their _id field when they have no id.
KeyedByDefault(def, k, items) ==
  {i \in DOMAIN items :
     IF items[i].id # Undef
     THEN cacheKeyFn(def, items[i].id) = cacheKeyFn(def, k)
     ELSE items[i]._id # Undef /\ cacheKeyFn(def, items[i]._id) = cacheKeyFn(def, k)}

\* C34 as stated: with no extractId configured, every load of a batch
\* resolves to a fetched row whose id equals its key, or that has no id and
\* whose _id equals its key, and to undefined when the fetch returned no such
\* row.
C34_Original ==
  (last.b # 0 /\ LastDef.kind = "PrimaryKey" /\ LastDef.extractId = "default"
     /\ LastBatch.st = "done") =>
    \A j \in DOMAIN LastBatch.keys :
      LET at == KeyedByDefault(LastDef, LastBatch.keys[j], last.items)
          got == Settled(last.b, j)
      IN /\ got.st = "resolved"
         /\ IF at = {} THEN got.val = UndefVal
            ELSE \E i \in at : got.val = RowVal(last.items[i])

\* The fetch returned a row whose id is 0 and the load of 0 resolved to
\* undefined.
ZeroIdNotFound ==
  /\ last.b # 0
  /\ LastDef.kind = "PrimaryKey" /\ LastDef.extractId = "default"
  /\ \E j \in DOMAIN LastBatch.keys :
       /\ LastBatch.keys[j] = Prim(0)
       /\ \E i \in DOMAIN last.items : last.items[i].id = Prim(0)
       /\ Settled(last.b, j) = Resolved(UndefVal)

\* The fetch returned a row whose id is 0 and whose _id is another key, and
\* the load of that other key resolved to the row.
ZeroIdFoundByUid ==
  /\ last.b # 0
  /\ LastDef.kind = "PrimaryKey" /\ LastDef.extractId = "default"
  /\ \E j \in DOMAIN LastBatch.keys :
       /\ LastBatch.keys[j] = KeyA
       /\ last.items = <<Zero1>>
       /\ Settled(last.b, j) = Resolved(RowVal(Zero1))

\* Every load of a key that is not falsy resolves as the default keying by
\* id, then _id, says, when no fetched row has a falsy id.
TruthyIdsFound ==
  (last.b # 0 /\ LastDef.kind = "PrimaryKey" /\ LastDef.extractId = "default"
     /\ LastBatch.st = "done"
     /\ \A i \in DOMAIN last.items : last.items[i].id # Prim(0)) =>
    \A j \in DOMAIN LastBatch.keys :
      LET at == KeyedByDefault(LastDef, LastBatch.keys[j], last.items)
      IN Truthy(LastBatch.keys[j]) =>
           IF at = {} THEN Settled(last.b, j) = Resolved(UndefVal)
           ELSE \E i \in at : Settled(last.b, j) = Resolved(RowVal(last.items[i]))

\* ------------------------------------- batches in flight across clear()
\* factory.clear() called while no load awaits its dispatch: every batch of
\* the Factory has its fetch under way or settled.
ClearInFlight(f) ==
  /\ \A b \in DOMAIN batches : batches[b].st # "open"
  /\ Clear(f)

DoClearInFlight == \E f \in scn.facs : ClearInFlight(f)

\* A definition with an idLoader and that idLoader, loaded around a clear().
StaleScenarios == {Scenario("byFk", {Undef}, {KeyA, KeyB})}

NextStale == DoLoad \/ EndTurn \/ DoFetchResolve \/ DoClearInFlight

SpecStale == InitWith(StaleScenarios) /\ [][NextStale]_vars

\* Batch b belongs to an executor that a clear() of its Factory discarded;
\* under SpecStale its fetch was started before that clear().
StartedBeforeClear(b) ==
  execs[batches[b].ex].epoch < clears[execs[batches[b].ex].fac]

\* The step settles the batch function of batch b after its fetch resolved.
Returns(b) == batches[b].st = "fetching" /\ batches'[b].st \in {"done", "threw"}

\* C35 as stated: a batch whose fetch was started before clear() adds no
\* entry to the cache of an executor that get() returns after the clear().
C35_Original ==
  [][\A b \in DOMAIN batches :
       (Returns(b) /\ StartedBeforeClear(b)) =>
         \A e \in ExecsIn(execs[batches[b].ex].fac)' :
           DOMAIN CacheAfter(e) \subseteq DOMAIN CacheBefore(e)]_vars

\* After a clear(), the executor that get() returns for the idLoader holds a
\* resolved entry although no fetch was started in the Factory since the
\* clear(): the entry was primed by a batch started before it.
StaleRowPrimed ==
  \E f \in scn.facs :
    /\ clears[f] = 1
    /\ \A b \in DOMAIN batches :
         execs[batches[b].ex].fac = f => execs[batches[b].ex].epoch = 0
    /\ \E e \in ExecsIn(f) :
         /\ execs[e].epoch = 1
         /\ \E s \in DOMAIN cacheMap(Lib, e) : Primed(e, s)

\* A batch whose fetch was started before clear() adds no entry to an
\* executor that get() returns after the clear(), unless that executor is of
\* an idLoader of the batch's definition.
StaleOwnRowsStayOut ==
  [][\A b \in DOMAIN batches :
       (Returns(b) /\ StartedBeforeClear(b)) =>
         \A e \in ExecsIn(execs[batches[b].ex].fac)' :
           (~\E t \in DOMAIN Def(execs[batches[b].ex].def).idLoaders :
               Def(execs[batches[b].ex].def).idLoaders[t] = execs'[e].def)
             => DOMAIN CacheAfter(e) \subseteq DOMAIN CacheBefore(e)]_vars

\* A batch of the definition itself was in flight across a clear(), resolved
\* after it, and a load of one of its keys made after the clear() misses.
StaleOwnRowRefetched ==
  \E b \in DOMAIN batches, i \in DOMAIN calls :
    /\ batches[b].st = "done"
    /\ StartedBeforeClear(b)
    /\ calls[i].epoch = 1
    /\ calls[i].def = execs[batches[b].ex].def
    /\ calls[i].ex # batches[b].ex
    /\ KeyString(i) \in StringsOf(DefOfCall(i), batches[b].keys)
    /\ calls[i].hit = 0

\* ------------------------------------------ priming an id that is cached
\* The executor that Factory f holds for the primary-key definition T.
HeldFor(f, T) == loaders[f][T]

\* C36: priming never replaces a cache entry.  When the batch function of a
\* definition with idLoaders returns, every entry that the executor of an
\* idLoader in the same Factory held before is still there and is the same
\* promise, whether it was resolved by a batch, primed earlier or is pending
\* in a batch in flight; and a settled promise keeps its value.
C36_PrimeKeepsEntries ==
  [][\A b \in DOMAIN batches :
       Returns(b) =>
         LET f == execs[batches[b].ex].fac
             def == Def(execs[batches[b].ex].def)
         IN \A t \in DOMAIN def.idLoaders :
              LET T == def.idLoaders[t]
              IN T \in DOMAIN loaders[f] =>
                   /\ T \in DOMAIN loaders'[f]
                   /\ HeldFor(f, T)' = HeldFor(f, T)
                   /\ \A s \in DOMAIN cacheMap(Lib, HeldFor(f, T)) :
                        LET pid == cacheMap(Lib, HeldFor(f, T))[s]
                        IN /\ s \in DOMAIN CacheAfter(HeldFor(f, T))
                           /\ CacheAfter(HeldFor(f, T))[s] = pid
                           /\ prom[pid].st # "pending" => prom'[pid] = prom[pid]]_vars

\* The last batch that returned fetched row r for an idLoader; call i had
\* loaded the id of r through the executor of that idLoader before, and the
\* cache still holds the promise of call i under that id, with a value of
\* its own (undefined or another row) or none yet.
KeptOver(i, r) ==
  /\ last.b # 0
  /\ LastBatch.st = "done"
  /\ \E t \in DOMAIN LastDef.idLoaders : LastDef.idLoaders[t] = calls[i].def
  /\ calls[i].fac = LastExec.fac
  /\ calls[i].def \in DOMAIN loaders[calls[i].fac]
  /\ calls[i].ex = HeldFor(calls[i].fac, calls[i].def)
  /\ calls[i].hit = 0
  /\ PrimedKey(calls[i].def, r) = KeyString(i)
  /\ KeyString(i) \in DOMAIN cacheMap(Lib, calls[i].ex)
  /\ cacheMap(Lib, calls[i].ex)[KeyString(i)] = calls[i].pid

\* An id resolved by a batch of the idLoader was primed afterwards with
\* another value, and its load keeps the value of its own batch.
C36_Witness ==
  \E i \in DOMAIN calls : \E n \in DOMAIN last.items :
    /\ KeptOver(i, ValuesOf(LastDef, last.items)[n])
    /\ \E b \in PromBatches(calls[i].pid) : batches[b].st = "done" /\ b < last.b
    /\ prom[calls[i].pid].st = "resolved"
    /\ prom[calls[i].pid].val # RowVal(ValuesOf(LastDef, last.items)[n])

\* An id pending in a batch in flight of the idLoader was primed, and its
\* load is still pending.
PendingKeptOverPrime ==
  \E i \in DOMAIN calls : \E n \in DOMAIN last.items :
    /\ KeptOver(i, ValuesOf(LastDef, last.items)[n])
    /\ \E b \in PromBatches(calls[i].pid) : batches[b].st = "fetching"
    /\ prom[calls[i].pid].st = "pending"

\* ------------------------------------------- loaders that prime each other
\* Two PrimaryKeyLoaders over one table, each the idLoader of the other, and
\* a ManyToManyLoader that primes the first of them.
MutualScenarios ==
  {Scenario("byIdMutual", {Undef}, {KeyA, KeyB}),
   Scenario("byFkMutual", {Undef}, {KeyA, KeyB}),
   Scenario("byFksChain", {Undef}, {KeyA, KeyB})}

NextMutual == DoLoad \/ EndTurn \/ DoFetchResolveWide

SpecMutual == InitWith(MutualScenarios) /\ [][NextMutual]_vars

\* The idLoaders of a definition.
IdLoadersOf(def) == {def.idLoaders[t] : t \in DOMAIN def.idLoaders}

\* The ids under which idLoader T caches the rows, as far as it caches.
PrimedKeys(T, rows) ==
  IF Def(T).useCache THEN {PrimedKey(T, r) : r \in rows} ELSE {}

\* C37: priming is not transitive and triggers no fetch.  When the batch
\* function of a definition returns, no fetch function is invoked and no
\* batch is opened; the executor of each of its idLoaders gains an entry for
\* the id of every fetched row that it did not hold, one resolved promise
\* each, and nothing else is created; the cache of every other executor,
\* the executors of the idLoaders' own idLoaders and the batch's own
\* executor included, gains nothing.
C37_PrimeOneLevel ==
  [][\A b \in DOMAIN batches :
       Completes(b) =>
         LET x == batches[b].ex
             f == execs[x].fac
             def == Def(execs[x].def)
             rows == Survivors(def, execs[x].filters)
             gained(e) == (DOMAIN CacheAfter(e)) \ (DOMAIN CacheBefore(e))
         IN /\ Len(batches') = Len(batches)
            /\ \A c \in DOMAIN batches : c # b => batches'[c] = batches[c]
            /\ batches'[b].call = batches[b].call
            /\ \A e \in DOMAIN execs' :
                 gained(e) =
                   IF execs'[e].fac = f /\ execs'[e].def \in IdLoadersOf(def)
                      /\ e \in ExecsIn(f)'
                   THEN PrimedKeys(execs'[e].def, rows) \ (DOMAIN CacheBefore(e))
                   ELSE {}
            /\ Len(prom') - Len(prom) =
                 Cardinality({<<e, s>> \in (DOMAIN execs') \X
                                 UNION {gained(y) : y \in DOMAIN execs'} :
                                s \in gained(e)})]_vars

\* A batch of the ManyToManyLoader returned two rows: the first of the two
\* loaders that prime each other holds an entry for each of them and the
\* second, which is its idLoader, was not built.
C37_Witness ==
  /\ last.b # 0
  /\ LastExec.def = "byFksChain"
  /\ Len(last.items) = 2
  /\ "byIdMutual" \in DOMAIN loaders[LastExec.fac]
  /\ \A n \in DOMAIN last.items :
       /\ PrimedKey("byIdMutual", last.items[n]) \in
            DOMAIN cacheMap(Lib, loaders[LastExec.fac]["byIdMutual"])
       /\ Primed(loaders[LastExec.fac]["byIdMutual"], PrimedKey("byIdMutual", last.items[n]))
  /\ "byFkMutual" \notin DOMAIN loaders[LastExec.fac]

\* A batch of one of the two loaders that prime each other returned two
\* rows: the other holds their two primed entries, and the cache of the
\* first holds nothing but its own load.
MutualPrimedOnce ==
  /\ last.b # 0
  /\ LastExec.def = "byIdMutual"
  /\ LastBatch.st = "done"
  /\ Len(last.items) = 2
  /\ PrimedKey("byFkMutual", last.items[1]) # PrimedKey("byFkMutual", last.items[2])
  /\ "byFkMutual" \in DOMAIN loaders[LastExec.fac]
  /\ Cardinality(DOMAIN cacheMap(Lib, loaders[LastExec.fac]["byFkMutual"])) = 2
  /\ Len(calls) = 1
  /\ DOMAIN cacheMap(Lib, LastBatch.ex) = {KeyString(1)}

\* ------------------------------------- keysFromFilter returning no key
\* The definition with the same fetch and options and no keysFromFilter.
NoFilterTwin(def) ==
  CASE def.kind = "OneToMany" -> OneToManyLoader([def.config EXCEPT !.keysFromFilter = ""])
    [] def.kind = "ManyToMany" -> ManyToManyLoader([def.config EXCEPT !.keysFromFilter = ""])
    [] def.kind = "ManyJoined" -> ManyJoinedLoader([def.config EXCEPT !.keysFromFilter = ""])

\* Batch b is of a definition with keysFromFilter and of filters for which
\* keysFromFilter returns no key.
NoFilterKeys(b) ==
  LET ex == execs[batches[b].ex]
  IN /\ IsMany(Def(ex.def))
     /\ Def(ex.def).config.keysFromFilter # ""
     /\ filterKeys(Def(ex.def).config.keysFromFilter, ex.filters) = <<>>

\* C38: when keysFromFilter(filter) returns an empty list, a completing batch
\* resolves every load to the array that the same loader without
\* keysFromFilter returns for the same keys and fetched rows, and the
\* executor of each caching idLoader holds an entry under the id of every
\* fetched row.
C38_EmptyKeysNoFilter ==
  [][\A b \in DOMAIN batches :
       (Completes(b) /\ NoFilterKeys(b)) =>
         LET ex == execs[batches[b].ex]
             def == Def(ex.def)
             rows == ValuesOf(def, last'.items)
         IN /\ \A j \in DOMAIN batches[b].pids :
                 prom'[batches[b].pids[j]] =
                   Resolved(ManyResults(NoFilterTwin(def), batches[b].keys, last'.items,
                                        ex.filters)[j])
            /\ \A t \in DOMAIN def.idLoaders : \A n \in DOMAIN rows :
                 Def(def.idLoaders[t]).useCache =>
                   HasEntry(ex.fac, def.idLoaders[t], rows[n])]_vars

\* A batch under filters for which keysFromFilter returns no key fetched two
\* rows of different keys: a load holds the one of its key and the idLoader
\* was primed with both.
C38_Witness ==
  /\ last.b # 0
  /\ LastBatch.st = "done"
  /\ IsMany(LastDef)
  /\ LastDef.config.keysFromFilter # ""
  /\ filterKeys(LastDef.config.keysFromFilter, LastExec.filters) = <<>>
  /\ LastDef.idLoaders # <<>>
  /\ Len(last.items) = 2
  /\ \E j \in DOMAIN LastBatch.keys :
       /\ Settled(last.b, j).st = "resolved"
       /\ Cardinality(RowsOf(Settled(last.b, j).val)) = 1
  /\ LET T == LastDef.idLoaders[1]
         rows == ValuesOf(LastDef, last.items)
     IN /\ T \in DOMAIN loaders[LastExec.fac]
        /\ PrimedKey(T, rows[1]) # PrimedKey(T, rows[2])
        /\ {PrimedKey(T, rows[1]), PrimedKey(T, rows[2])} \subseteq
             DOMAIN cacheMap(Lib, loaders[LastExec.fac][T])

\* --------------------------------------- getCache on a loader that caches
\* The latest getCache call was for a definition that getCache is declared
\* for and that caches.
AskedCaching == ret.op = "getCache" /\ Cacheable(ret.def)

\* C39 as stated: getCache for a loader that caches never fails with the
\* cache-disabled error, and the call changes nothing in the Factory.
C39_Original ==
  [][(ret' # ret /\ AskedCaching') =>
       /\ ret'.out # CacheDisabledError
       /\ UNCHANGED <<loaders, execs, batches, prom, maps, clears, context>>]_vars

\* What getCache does for a loader that caches: it returns undefined while
\* the Factory has built no executor of the loader since its last clear(),
\* throws the cache-disabled error when the Factory has built executors of a
\* *-to-many loader but none for these filters, and otherwise returns the
\* Map of the executor that get() returns; it builds no executor and
\* changes nothing.
CachingOutcome ==
  [][(ret' # ret /\ AskedCaching') =>
       /\ ret'.out =
            IF ret'.def \notin DOMAIN loaders[ret'.fac] THEN [t |-> "undefined"]
            ELSE IF Holds(ret'.fac, ret'.def, ret'.filters)
            THEN [t |-> "map", ex |-> Held(ret'.fac, ret'.def, ret'.filters)]
            ELSE CacheDisabledError
       /\ UNCHANGED <<loaders, execs, batches, prom, maps, clears, context>>]_vars

\* getCache threw the cache-disabled error for a loader that caches: the
\* Factory holds an executor of the loader for other filters only.
UnusedFilterThrew ==
  /\ AskedCaching
  /\ ret.out = CacheDisabledError
  /\ ret.def \in DOMAIN loaders[ret.fac]
  /\ DOMAIN loaders[ret.fac][ret.def] # {}
  /\ filterstring(ret.filters) \notin DOMAIN loaders[ret.fac][ret.def]

\* getCache returned the Map of the executor of the filters asked for while
\* the Factory held executors of the loader for two filters.
UsedFilterMap ==
  /\ AskedCaching
  /\ ret.out.t = "map"
  /\ IsMany(Def(ret.def))
  /\ ret.def \in DOMAIN loaders[ret.fac]
  /\ Cardinality(DOMAIN loaders[ret.fac][ret.def]) = 2

\* ------------------------------------------------- every load settles
\* A definition that primes an idLoader, and one whose priming can throw,
\* under loads, clear() and fetches that resolve or reject.
LiveScenarios ==
  {Scenario("byFk", {Undef}, {KeyA, KeyB}),
   Scenario("byFkStrict", {Undef}, {KeyA})}

NextLive == DoLoad \/ EndTurn \/ DoFetchResolve \/ DoFetchReject \/ DoClear

\* The fetch call of batch b settles: it resolves with rows or rejects.
FetchSettles(b) ==
  /\ b \in DOMAIN batches
  /\ \/ FetchReject(b)
     \/ \E items \in FetchResults(Def(execs[batches[b].ex].def), MaxFetched) :
          FetchResolve(b, items)

\* DataLoader dispatches the batches of a turn when the turn ends
\* (process.nextTick), and every fetch call made settles.
SpecLive ==
  /\ InitWith(LiveScenarios)
  /\ [][NextLive]_vars
  /\ WF_vars(EndTurn)
  /\ \A b \in 1..MaxLoads : WF_vars(FetchSettles(b))

\* The promise that load() call i returned is settled.
LoadSettled(i) == i \in DOMAIN calls /\ loadState(calls[i], batches, prom).st # "pending"

\* The fetch call that load() call i waits for has settled: the batch of its
\* promise and, for a cache hit, the batch that the call joined.
FetchSettled(i) ==
  /\ \A b \in PromBatches(calls[i].pid) : batches[b].st \in {"done", "failed", "threw"}
  /\ calls[i].hit # 0 => batches[calls[i].hit].st \in {"done", "failed", "threw"}

\* C40: every load() call settles once the fetch call of its batch has
\* settled, and so every load() call eventually settles when every fetch
\* call does, whether or not clear() was called in between and whether or
\* not its executor was discarded.
C40_LoadsSettle ==
  /\ [](\A i \in DOMAIN calls : FetchSettled(i) => LoadSettled(i))
  /\ \A i \in 1..MaxLoads : (i \in DOMAIN calls) ~> LoadSettled(i)

\* A load made before clear() settled after a load made after the clear()
\* had been fetched: its executor was discarded while it was pending.
C40_Witness ==
  /\ last.b # 0
  /\ LastExec.epoch < clears[LastExec.fac]
  /\ \E j \in DOMAIN batches :
       /\ execs[batches[j].ex].fac = LastExec.fac
       /\ execs[batches[j].ex].epoch = clears[LastExec.fac]
       /\ batches[j].keys # <<>>
       /\ batches[j].st = "done"
  /\ \E i \in DOMAIN calls :
       /\ calls[i].ex = LastBatch.ex
       /\ calls[i].pid \in {LastBatch.pids[n] : n \in DOMAIN LastBatch.pids}
       /\ LoadSettled(i)

\* A load on an executor that clear() discarded was rejected with its fetch.
DiscardedLoadRejected ==
  \E i \in DOMAIN calls :
    /\ calls[i].epoch < clears[calls[i].fac]
    /\ \E b \in PromBatches(calls[i].pid) : batches[b].st = "failed"
    /\ loadState(calls[i], batches, prom).st = "rejected"

====
